---------------------------- MODULE Spec2Model ----------------------------
(***************************************************************************)
(* A model of pyrad: the RADIUS packet codec (pyrad/packet.py), the        *)
(* attribute encoders (pyrad/tools.py) and the client's retry loop         *)
(* (pyrad/client.py).                                                      *)
(*                                                                         *)
(* Octet strings are sequences of integers 0..255.  A datagram is the flat *)
(* octet string that travels in one UDP packet, exactly as the code slices *)
(* it (raw[0:4], raw[4:20], raw[20:]).  Python's half-open slice s[a:b] is *)
(* Slice(s, a, b).                                                         *)
(*                                                                         *)
(* hashlib.md5 and hmac are library functions: they are modelled by a      *)
(* 16-octet polynomial checksum, which keeps what the claims depend on:    *)
(* the digest is 16 octets long and is a function of exactly the octets    *)
(* that were hashed, telling apart the inputs that occur in the model.     *)
(*                                                                         *)
(* Time is counted in half seconds, so that a fractional timeout (the      *)
(* client documents "timeout: float") can be told from a whole one.        *)
(***************************************************************************)
EXTENDS Integers, Sequences, FiniteSets, TLC

(***************************************************************************)
(* Octet strings                                                           *)
(***************************************************************************)

\* s[a:b] of Python, for 0 <= a: the octets at 0-based positions a..b-1.
Slice(s, a, b) ==
    LET hi == IF b > Len(s) THEN Len(s) ELSE b
    IN  IF hi <= a THEN << >> ELSE [i \in 1..(hi - a) |-> s[a + i]]

\* s[a:] of Python.
From(s, a) == Slice(s, a, Len(s))

\* n * b'\x00'
Zeros(n) == [i \in 1..n |-> 0]

\* struct.pack('!H', n)
PackH(n) == << (n \div 256) % 256, n % 256 >>

\* struct.pack('!L', n) and struct.pack('!I', n)
PackL(n) == << (n \div 16777216) % 256, (n \div 65536) % 256, (n \div 256) % 256, n % 256 >>

\* struct.unpack('!L', s)[0] for a 4-octet s
UnpackL(s) == ((s[1] * 256 + s[2]) * 256 + s[3]) * 256 + s[4]

\* struct.unpack('!H', s)[0] for a 2-octet s
UnpackH(s) == s[1] * 256 + s[2]

RECURSIVE XorBits(_, _, _)
XorBits(a, b, n) ==
    IF n = 0 THEN 0
    ELSE (((a % 2) + (b % 2)) % 2) + 2 * XorBits(a \div 2, b \div 2, n - 1)

\* b ^ h on two octets
Xor(a, b) == XorBits(a, b, 8)

\* bytes([b ^ h]) over zip(buf, cur_hash): as long as the shorter of the two
XorZip(buf, h) ==
    LET n == IF Len(buf) < Len(h) THEN Len(buf) ELSE Len(h)
    IN  [i \in 1..n |-> Xor(buf[i], h[i])]

(***************************************************************************)
(* hashlib.md5 and hmac.new(key, msg, md5)                                 *)
(***************************************************************************)

\* One checksum of the octets of s from the i-th on, modulo the prime q:
\* acc := (acc * m + s[i] + 1) % q over the octets in order, four octets to
\* a step while four are left; m2, m3, m4 are the powers of m modulo q.
\* (The next index and sum are bound as values: j \in {..}, a \in {..}.)
RECURSIVE Horner(_, _, _, _, _, _, _, _)
Horner(s, q, m, m2, m3, m4, i, acc) ==
    IF i > Len(s) THEN acc
    ELSE IF i + 3 <= Len(s)
    THEN CHOOSE r \in { Horner(s, q, m, m2, m3, m4, j, a) :
                            j \in {i + 4},
                            a \in {(acc * m4 + (s[i] + 1) * m3 + (s[i + 1] + 1) * m2
                                       + (s[i + 2] + 1) * m + s[i + 3] + 1) % q} } : TRUE
    ELSE CHOOSE r \in { Horner(s, q, m, m2, m3, m4, j, a) :
                            j \in {i + 1}, a \in {(acc * m + s[i] + 1) % q} } : TRUE

\* Two checksums a and b (modulo two primes below 2^15) spread over 16
\* octets; the first four octets hold them in full.
Spread(a, b) ==
    [j \in 1..16 |->
        CASE j = 1 -> a % 256
          [] j = 2 -> a \div 256
          [] j = 3 -> b % 256
          [] j = 4 -> b \div 256
          [] OTHER -> (a * j + b * (j + 7)) % 256]

\* md5(s).digest(): 16 octets, a function of s alone
MD5(s) ==
    CHOOSE d \in { Spread(a, b) :
                       a \in { Horner(v, 32749, 257, 551, 10611, 8860, 1, 1) : v \in {s} },
                       b \in { Horner(v, 32719, 263, 3731, 32402, 14786, 1, 2) : v \in {s} } } : TRUE

\* hmac.new(key, msg, digestmod=md5).digest()
HMAC(key, msg) == MD5(<<92>> \o key \o MD5(<<54>> \o key \o msg))


(***************************************************************************)
(* The dictionary: the object the caller passes as dict=.  The code reads   *)
(* of an attribute its code (and vendor), type, has_tag and encrypt.       *)
(***************************************************************************)

\* The vendor part of the key of an attribute that has no vendor: the key is
\* the bare integer code in the code, <<NoVendor, code>> here; a vendor
\* attribute's key is the tuple (vendor, code), <<vendor, code>> here.
NoVendor == -1

Key(c) == <<NoVendor, c>>

\* The attribute definitions of the dictionary in use: the attributes of
\* RFC 2865, 2866, 2868 and 2869 that the packets of this model carry by
\* name.
Dictionary ==
    { [name |-> "User-Name",             key |-> Key(1),  type |-> "string",  has_tag |-> FALSE, encrypt |-> 0],
      [name |-> "Reply-Message",         key |-> Key(18), type |-> "string",  has_tag |-> FALSE, encrypt |-> 0],
      [name |-> "Acct-Delay-Time",       key |-> Key(41), type |-> "integer", has_tag |-> FALSE, encrypt |-> 0],
      [name |-> "CHAP-Challenge",        key |-> Key(60), type |-> "octets",  has_tag |-> FALSE, encrypt |-> 0],
      [name |-> "Tunnel-Type",           key |-> Key(64), type |-> "integer", has_tag |-> TRUE,  encrypt |-> 0],
      [name |-> "Tunnel-Client-Endpoint", key |-> Key(66), type |-> "string", has_tag |-> TRUE,  encrypt |-> 0],
      [name |-> "Tunnel-Password",       key |-> Key(69), type |-> "string",  has_tag |-> TRUE,  encrypt |-> 2],
      [name |-> "Message-Authenticator", key |-> Key(80), type |-> "octets",  has_tag |-> FALSE, encrypt |-> 0] }

\* self.dict.attributes[name]
DictAttr(name) == CHOOSE a \in Dictionary : a.name = name

(***************************************************************************)
(* The ordered attribute map of a packet (Packet is an OrderedDict): a     *)
(* sequence of entries [key, vals], keys distinct, in insertion order.     *)
(***************************************************************************)

HasKey(attrs, k) == \E i \in 1..Len(attrs) : attrs[i].key = k

IndexOfKey(attrs, k) == CHOOSE i \in 1..Len(attrs) : attrs[i].key = k

\* OrderedDict.__getitem__(self, key), for a key that is present
GetItem(attrs, k) == attrs[IndexOfKey(attrs, k)].vals

\* OrderedDict.__setitem__(self, key, item): a present key keeps its place
SetItem(attrs, k, vals) ==
    IF HasKey(attrs, k)
    THEN [attrs EXCEPT ![IndexOfKey(attrs, k)].vals = vals]
    ELSE Append(attrs, [key |-> k, vals |-> vals])

\* self.setdefault(key, []).append(value)
SetDefaultAppend(attrs, k, v) ==
    IF HasKey(attrs, k)
    THEN [attrs EXCEPT ![IndexOfKey(attrs, k)].vals = Append(@, v)]
    ELSE Append(attrs, [key |-> k, vals |-> <<v>>])

(***************************************************************************)
(* Encoding the attributes (Packet._pkt_encode_attribute(s))               *)
(***************************************************************************)

\* struct.pack('!BB', key, len(value) + 2) + value, a vendor key first
\* wrapped as vendor id + sub-attribute under type 26
PktEncodeAttribute(k, value) ==
    IF k[1] # NoVendor
    THEN LET inner == PackL(k[1]) \o (<<k[2], Len(value) + 2>> \o value)
         IN  <<26, Len(inner) + 2>> \o inner
    ELSE <<k[2], Len(value) + 2>> \o value

RECURSIVE EncodeValues(_, _, _)
EncodeValues(k, vals, i) ==
    IF i > Len(vals) THEN << >>
    ELSE PktEncodeAttribute(k, vals[i]) \o EncodeValues(k, vals, i + 1)

RECURSIVE EncodeEntries(_, _)
EncodeEntries(attrs, i) ==
    IF i > Len(attrs) THEN << >>
    ELSE EncodeValues(attrs[i].key, attrs[i].vals, 1) \o EncodeEntries(attrs, i + 1)

\* Packet._pkt_encode_attributes: every key in map order, and under each
\* key its values in list order.  (No attribute of Dictionary is tlv-typed,
\* so the _pkt_encode_tlv branch is never taken.)
PktEncodeAttributes(attrs) == EncodeEntries(attrs, 1)

\* Packet._encode_header: struct.pack('!BBH', code, id, 20 + len(attr))
EncodeHeader(code, id, attr) == <<code, id>> \o PackH(20 + Len(attr))

(***************************************************************************)
(* Decoding a datagram (Packet.decode_packet)                              *)
(***************************************************************************)

\* The while loop of _pkt_decode_vendor_attribute.  A sub-attribute whose
\* length octet is 0 leaves sumlength where it was: the loop never ends
\* (st = "hang").
RECURSIVE VendorLoop(_, _, _, _)
VendorLoop(data, vendor, sumlength, tlvs) ==
    IF ~(Len(data) > sumlength) THEN [st |-> "ok", items |-> tlvs]
    ELSE IF Len(Slice(data, sumlength, sumlength + 2)) < 2
         THEN [st |-> "ok", items |-> << [key |-> Key(26), value |-> data] >>]
         ELSE LET atype  == data[sumlength + 1]
                  length == data[sumlength + 2]
              IN  IF length = 0 THEN [st |-> "hang", items |-> tlvs]
                  ELSE VendorLoop(data, vendor, sumlength + length,
                                  Append(tlvs, [key   |-> <<vendor, atype>>,
                                                value |-> Slice(data, sumlength + 2, sumlength + length)]))

\* _pkt_decode_vendor_attribute without the test of lines 466-467:
\* struct.unpack('!LBB', data[:6]) of fewer than 6 octets raises struct.error
PktDecodeVendorAttribute_Unchecked(data) ==
    IF Len(data) < 6 THEN [st |-> "struct.error", items |-> << >>]
    ELSE LET vendor == UnpackL(Slice(data, 0, 4))
             atype  == data[5]
             length == data[6]
         IN  VendorLoop(data, vendor, 4 + length,
                        << [key |-> <<vendor, atype>>, value |-> Slice(data, 6, length + 4)] >>)

\* Packet._pkt_decode_vendor_attribute(data): the (key, value) pairs of one
\* type-26 attribute
PktDecodeVendorAttribute(data) ==
    IF Len(data) < 6 THEN [st |-> "ok", items |-> << [key |-> Key(26), value |-> data] >>]
    ELSE LET vendor == UnpackL(Slice(data, 0, 4))
             atype  == data[5]
             length == data[6]
         IN  VendorLoop(data, vendor, 4 + length,
                        << [key |-> <<vendor, atype>>, value |-> Slice(data, 6, length + 4)] >>)

\* The tlv-typed attributes of the dictionary in use, by key: one without
\* vendor and one of vendor 9.  Only decode_packet meets them in this model.
TlvKeys == {Key(241), <<9, 7>>}

\* The entry of a decoded tlv-typed attribute holds a dict of sub-attribute
\* lists, not a list: such an entry has the field dict, and its vals are the
\* entries [key |-> sub-type, vals |-> values] in insertion order.
IsDict(attrs, k) == HasKey(attrs, k) /\ "dict" \in DOMAIN attrs[IndexOfKey(attrs, k)]

\* The while loop of _pkt_decode_tlv_attribute, sub_attributes being what is
\* stored under code.  struct.unpack of fewer than two octets raises
\* struct.error; setdefault of a list raises AttributeError; a sub-attribute
\* whose length octet is 0 leaves loc where it was (st = "hang").
RECURSIVE TlvLoop(_, _, _, _)
TlvLoop(attrs, code, data, loc) ==
    IF ~(loc < Len(data)) THEN [st |-> "ok", attrs |-> attrs]
    ELSE IF Len(Slice(data, loc, loc + 2)) < 2 THEN [st |-> "struct.error", attrs |-> attrs]
    ELSE IF ~IsDict(attrs, code) THEN [st |-> "AttributeError", attrs |-> attrs]
    ELSE LET atype  == data[loc + 1]
             length == data[loc + 2]
             i      == IndexOfKey(attrs, code)
         IN  IF length = 0 THEN [st |-> "hang", attrs |-> attrs]
             ELSE TlvLoop([attrs EXCEPT ![i].vals =
                               SetDefaultAppend(@, atype, Slice(data, loc + 2, loc + length))],
                          code, data, loc + length)

\* Packet._pkt_decode_tlv_attribute(code, data):
\* sub_attributes = self.setdefault(code, {}), then the loop
PktDecodeTlvAttribute(attrs, code, data) ==
    TlvLoop(IF HasKey(attrs, code) THEN attrs
            ELSE Append(attrs, [key |-> code, vals |-> << >>, dict |-> TRUE]),
            code, data, 0)

\* _pkt_decode_vendor_attribute(data) with the packet it works on: when the
\* first sub-attribute is tlv-typed it is stored by
\* _pkt_decode_tlv_attribute (any exception of which is caught: the whole
\* value is returned under 26) and the loop goes over the rest.
PktDecodeVendorAttributeTlv(attrs, data) ==
    IF Len(data) >= 6 /\ <<UnpackL(Slice(data, 0, 4)), data[5]>> \in TlvKeys
    THEN CHOOSE r \in
             { IF t.st = "hang" THEN [st |-> "hang", attrs |-> t.attrs, items |-> << >>]
               ELSE IF t.st # "ok"
               THEN [st |-> "ok", attrs |-> t.attrs,
                     items |-> << [key |-> Key(26), value |-> data] >>]
               ELSE [st |-> v.st, attrs |-> t.attrs, items |-> v.items] :
                   t \in { PktDecodeTlvAttribute(attrs, <<UnpackL(Slice(data, 0, 4)), data[5]>>,
                                                 Slice(data, 6, data[6] + 4)) },
                   v \in { VendorLoop(data, UnpackL(Slice(data, 0, 4)), 4 + data[6], << >>) } } : TRUE
    ELSE CHOOSE r \in { [st |-> v.st, attrs |-> attrs, items |-> v.items] :
                            v \in { PktDecodeVendorAttribute(data) } } : TRUE

RECURSIVE AppendItems(_, _, _)
AppendItems(attrs, items, i) ==
    IF i > Len(items) THEN attrs
    ELSE AppendItems(SetDefaultAppend(attrs, items[i].key, items[i].value), items, i + 1)

\* The attribute loop of decode_packet over packet[20:].  append of a dict
\* (the entry of a tlv-typed attribute) raises AttributeError.
RECURSIVE DecodeAttrs(_, _, _)
DecodeAttrs(packet, attrs, ma) ==
    IF packet = << >> THEN [st |-> "ok", attrs |-> attrs, ma |-> ma]
    ELSE IF Len(packet) < 2 THEN [st |-> "PacketError", attrs |-> attrs, ma |-> ma]
    ELSE LET k       == packet[1]
             attrlen == packet[2]
             value   == Slice(packet, 2, attrlen)
             rest    == From(packet, attrlen)
         IN  IF attrlen < 2 THEN [st |-> "PacketError", attrs |-> attrs, ma |-> ma]
             ELSE IF k = 26
                  THEN CHOOSE r \in
                           { IF v.st # "ok" THEN [st |-> v.st, attrs |-> attrs, ma |-> ma]
                             ELSE IF \E i \in 1..Len(v.items) : IsDict(v.attrs, v.items[i].key)
                             THEN [st |-> "AttributeError", attrs |-> attrs, ma |-> ma]
                             ELSE DecodeAttrs(rest, AppendItems(v.attrs, v.items, 1), ma) :
                                 v \in { PktDecodeVendorAttributeTlv(attrs, value) } } : TRUE
             ELSE IF k = 80
                  THEN DecodeAttrs(rest, SetDefaultAppend(attrs, Key(k), value), TRUE)
             ELSE IF Key(k) \in TlvKeys
                  THEN CHOOSE r \in
                           { IF t.st # "ok" THEN [st |-> t.st, attrs |-> attrs, ma |-> ma]
                             ELSE DecodeAttrs(rest, t.attrs, ma) :
                                 t \in { PktDecodeTlvAttribute(attrs, Key(k), value) } } : TRUE
             ELSE DecodeAttrs(rest, SetDefaultAppend(attrs, Key(k), value), ma)

\* Packet.decode_packet(packet): st is "ok", or "PacketError" (the raise), or
\* "hang"; on "ok" the fields the packet object ends with.
DecodePacket(raw) ==
    LET bad(st) == [st |-> st, code |-> 0, id |-> 0, authenticator |-> << >>,
                    attrs |-> << >>, message_authenticator |-> FALSE]
    IN  IF Len(raw) < 20 THEN bad("PacketError")
        ELSE LET length == UnpackH(Slice(raw, 2, 4))
             IN  IF Len(raw) # length THEN bad("PacketError")
                 ELSE IF length > 4096 THEN bad("PacketError")
                 ELSE LET r == DecodeAttrs(From(raw, 20), << >>, FALSE)
                      IN  IF r.st # "ok" THEN bad(r.st)
                          ELSE [st |-> "ok", code |-> raw[1], id |-> raw[2],
                                authenticator |-> Slice(raw, 4, 20),
                                attrs |-> r.attrs,
                                message_authenticator |-> r.ma]

(***************************************************************************)
(* Scalar encoders (pyrad/tools.py, imported by packet.py as `encoding`)   *)
(***************************************************************************)

\* A number that may be fractional (a float in the code) is carried as its
\* count of halves: Halves(n) is the whole number n.
Halves(n) == 2 * n

\* int(num) for a non-negative num given in halves: truncation
IntOf(h) == h \div 2

\* encode_integer(num): struct.pack('!I', int(num))
encode_integer(h) == PackL(IntOf(h))

\* decode_integer(num): struct.unpack('!I', num)[0]
decode_integer(s) == UnpackL(s)

IsHexDigit(c) == (c >= 48 /\ c <= 57) \/ (c >= 97 /\ c <= 102) \/ (c >= 65 /\ c <= 70)

HexVal(c) == IF c <= 57 THEN c - 48 ELSE IF c >= 97 THEN c - 87 ELSE c - 55

\* string.split(b'0x')[1] for a string that starts with b'0x': what lies
\* between that prefix and the next b'0x' (or the end)
RECURSIVE UpToNext0x(_, _)
UpToNext0x(s, i) ==
    IF i > Len(s) THEN << >>
    ELSE IF i < Len(s) /\ s[i] = 48 /\ s[i + 1] = 120 THEN << >>
    ELSE <<s[i]>> \o UpToNext0x(s, i + 1)

\* encode_octets(string): st = "ValueError" for the raise of the length
\* check, "binascii.Error" for the raise of unhexlify
encode_octets(s) ==
    IF Len(s) > 253 THEN [st |-> "ValueError", val |-> << >>]
    ELSE IF Len(s) >= 2 /\ s[1] = 48 /\ s[2] = 120
    THEN LET hex == UpToNext0x(s, 3)
         IN  IF Len(hex) % 2 # 0 \/ \E i \in 1..Len(hex) : ~IsHexDigit(hex[i])
             THEN [st |-> "binascii.Error", val |-> << >>]
             ELSE [st |-> "ok",
                   val |-> [i \in 1..(Len(hex) \div 2) |->
                               16 * HexVal(hex[2 * i - 1]) + HexVal(hex[2 * i])]]
    ELSE [st |-> "ok", val |-> s]

\* encode_string(string), the string given as its UTF-8 octets
encode_string(s) ==
    IF Len(s) > 253 THEN [st |-> "ValueError", val |-> << >>]
    ELSE [st |-> "ok", val |-> s]

(***************************************************************************)
(* Packet objects.  A packet is a record                                   *)
(*   kind                   "auth" | "acct" | "coa": AuthPacket,           *)
(*                          AcctPacket or CoAPacket                        *)
(*   code, id, secret       as in the code                                 *)
(*   authenticator          16 octets, or << >> for None                   *)
(*   message_authenticator  the truth value of self.message_authenticator  *)
(*   auth_type              "pap" | "eap-md5" (AuthPacket)                 *)
(*   attrs                  the ordered attribute map                      *)
(***************************************************************************)

None == << >>

ACCESS_REQUEST == 1
ACCESS_ACCEPT == 2
ACCESS_REJECT == 3
ACCOUNTING_REQUEST == 4
ACCOUNTING_RESPONSE == 5
ACCESS_CHALLENGE == 11
STATUS_SERVER == 12
DISCONNECT_REQUEST == 40
DISCONNECT_ACK == 41
DISCONNECT_NAK == 42
COA_REQUEST == 43
COA_ACK == 44
COA_NAK == 45

\* Packet.__init__ without packet=: the fields as given, no attribute yet
NewPacket(kind, code, id, secret, authenticator, ma, auth_type) ==
    [kind |-> kind, code |-> code, id |-> id, secret |-> secret,
     authenticator |-> authenticator, message_authenticator |-> ma,
     auth_type |-> auth_type, attrs |-> << >>]

\* RefreshMessageAuthenticator with 16 zero octets hashed for the responses
\* to CoA- and Disconnect-Requests too
RefreshMessageAuthenticator_ZeroForResponses(p) ==
    LET zeroed == SetItem(p.attrs, Key(80), << Zeros(16) >>)
        attr   == PktEncodeAttributes(zeroed)
        header == EncodeHeader(p.code, p.id, attr)
        zeroIn == p.code \in {ACCOUNTING_REQUEST, DISCONNECT_REQUEST, COA_REQUEST, ACCOUNTING_RESPONSE,
                              COA_ACK, COA_NAK, DISCONNECT_ACK, DISCONNECT_NAK}
        digest == HMAC(p.secret, header \o (IF zeroIn THEN Zeros(16) ELSE p.authenticator) \o attr)
        enc    == encode_octets(digest)
    IN  IF ~zeroIn /\ p.authenticator = None
        THEN [st |-> "Exception", p |-> [p EXCEPT !.attrs = zeroed]]
        ELSE IF enc.st # "ok" THEN [st |-> enc.st, p |-> [p EXCEPT !.attrs = zeroed]]
        ELSE [st |-> "ok", p |-> [p EXCEPT !.attrs = SetItem(zeroed, Key(80), << enc.val >>)]]

\* Packet._refresh_message_authenticator: attribute 80 zeroed, the HMAC over
\* header || authenticator input || attributes, attribute 80 set to it.
\* self['Message-Authenticator'] = x goes through encode_octets.
RefreshMessageAuthenticator(p) ==
    LET zeroed == SetItem(p.attrs, Key(80), << Zeros(16) >>)
        attr   == PktEncodeAttributes(zeroed)
        header == EncodeHeader(p.code, p.id, attr)
        zeroIn == p.code \in {ACCOUNTING_REQUEST, DISCONNECT_REQUEST, COA_REQUEST, ACCOUNTING_RESPONSE}
        digest == HMAC(p.secret, header \o (IF zeroIn THEN Zeros(16) ELSE p.authenticator) \o attr)
        enc    == encode_octets(digest)
    IN  IF ~zeroIn /\ p.authenticator = None
        THEN [st |-> "Exception", p |-> [p EXCEPT !.attrs = zeroed]]
        ELSE IF enc.st # "ok" THEN [st |-> enc.st, p |-> [p EXCEPT !.attrs = zeroed]]
        ELSE [st |-> "ok", p |-> [p EXCEPT !.attrs = SetItem(zeroed, Key(80), << enc.val >>)]]

\* Packet.verify_message_authenticator(secret, original_authenticator,
\* original_code): an argument left out is None; original_code is << >> or
\* a one-element sequence holding the code.  st is "ok" with the value
\* returned, or the exception raised; the packet keeps attribute 80 zeroed
\* when an exception leaves the method before line 198.
VerifyMessageAuthenticator(p, secret, original_authenticator, original_code) ==
    LET prev_ma  == GetItem(p.attrs, Key(80))
        key      == IF secret # None THEN secret ELSE p.secret
        zeroed   == [p EXCEPT !.attrs = SetItem(p.attrs, Key(80), << Zeros(16) >>)]
        attr     == PktEncodeAttributes(zeroed.attrs)
        header   == EncodeHeader(p.code, p.id, attr)
        restored == encode_octets(prev_ma[1])
        answer(input) ==
            IF restored.st # "ok" THEN [st |-> restored.st, val |-> FALSE, p |-> zeroed]
            ELSE [st |-> "ok",
                  val |-> prev_ma[1] = HMAC(key, header \o input \o attr),
                  p |-> [p EXCEPT !.attrs = SetItem(zeroed.attrs, Key(80), << restored.val >>)]]
    IN  IF ~p.message_authenticator THEN [st |-> "Exception", val |-> FALSE, p |-> p]
        ELSE IF ~HasKey(p.attrs, Key(80)) THEN [st |-> "KeyError", val |-> FALSE, p |-> p]
        ELSE IF p.code \in {ACCOUNTING_REQUEST, DISCONNECT_REQUEST, COA_REQUEST, ACCOUNTING_RESPONSE}
        THEN IF original_code = None \/ original_code # <<STATUS_SERVER>>
             THEN answer(Zeros(16))
             ELSE answer(<< >>)
        ELSE IF p.code \in {ACCESS_ACCEPT, ACCESS_CHALLENGE, ACCESS_REJECT}
        THEN IF original_authenticator = None
             THEN IF p.authenticator = None
                  THEN [st |-> "TypeError", val |-> FALSE, p |-> zeroed]
                  ELSE [st |-> "Exception", val |-> FALSE, p |-> zeroed]
             ELSE answer(original_authenticator)
        ELSE IF p.authenticator = None
        THEN [st |-> "TypeError", val |-> FALSE, p |-> zeroed]
        ELSE answer(p.authenticator)

\* create_id with the counter wrapping one value early
create_id_Wrap255(cur) == (cur + 1) % 255

\* create_id(): the new value of current_id, which is also returned
create_id(cur) == (cur + 1) % 256

\* Packet.add_message_authenticator; rnd is what create_authenticator()
\* returns if it is called
AddMessageAuthenticator(p, rnd) ==
    LET q == [p EXCEPT !.message_authenticator = TRUE,
                       !.attrs = SetItem(p.attrs, Key(80), << Zeros(16) >>)]
    IN  IF q.authenticator = None /\ q.code = ACCESS_REQUEST
        THEN RefreshMessageAuthenticator([q EXCEPT !.authenticator = rnd])
        ELSE [st |-> "ok", p |-> q]

\* Packet.salt_crypt(value); salt is 32768 + randrange(0, 32767).  An unset
\* authenticator is set to 16 zero octets.
RECURSIVE SaltBlocks(_, _, _, _)
SaltBlocks(secret, last, buf, result) ==
    IF buf = << >> THEN result
    ELSE LET r2 == result \o XorZip(buf, MD5(secret \o last))
         IN  SaltBlocks(secret, From(r2, Len(r2) - 16), From(buf, 16), r2)

\* salt_crypt without the length octet before the value
SaltCrypt_NoLengthOctet(p, value, salt) ==
    LET auth == IF p.authenticator = None THEN Zeros(16) ELSE p.authenticator
        b0   == value
        buf  == IF Len(b0) % 16 # 0 THEN b0 \o Zeros(16 - (Len(b0) % 16)) ELSE b0
    IN  [p   |-> [p EXCEPT !.authenticator = auth],
         val |-> SaltBlocks(p.secret, auth \o PackH(salt), buf, PackH(salt))]

\* Packet.salt_crypt(value) with the salt drawn
SaltCrypt(p, value, salt) ==
    LET auth == IF p.authenticator = None THEN Zeros(16) ELSE p.authenticator
        b0   == <<Len(value)>> \o value
        buf  == IF Len(b0) % 16 # 0 THEN b0 \o Zeros(16 - (Len(b0) % 16)) ELSE b0
    IN  [p   |-> [p EXCEPT !.authenticator = auth],
         val |-> SaltBlocks(p.secret, auth \o PackH(salt), buf, PackH(salt))]

\* pkt[name] = value with the tag put before all four octets of an integer
SetItemName_TagPrepended(p, name, tag, value, salt) ==
    LET a    == DictAttr(name)
        enc  == IF a.type = "integer" THEN [st |-> "ok", val |-> encode_integer(value)]
                ELSE IF a.type = "octets" THEN encode_octets(value)
                ELSE encode_string(value)
        sc   == IF a.encrypt = 2 THEN SaltCrypt(p, enc.val, salt) ELSE [p |-> p, val |-> enc.val]
        item == IF a.has_tag
                THEN <<tag>> \o sc.val
                ELSE sc.val
    IN  IF enc.st # "ok" THEN [st |-> enc.st, p |-> p]
        ELSE [st |-> "ok", p |-> [sc.p EXCEPT !.attrs = SetItem(sc.p.attrs, a.key, << item >>)]]

\* pkt[name] = value (Packet.__setitem__ with a name, through
\* _encode_key_values and _encode_value) for one value; tag is the number
\* after ':' in the name, 0 when absent; value is in octets (string, octets)
\* or in halves (integer); salt is drawn only for an encrypt=2 attribute.
SetItemName(p, name, tag, value, salt) ==
    LET a    == DictAttr(name)
        enc  == IF a.type = "integer" THEN [st |-> "ok", val |-> encode_integer(value)]
                ELSE IF a.type = "octets" THEN encode_octets(value)
                ELSE encode_string(value)
        sc   == IF a.encrypt = 2 THEN SaltCrypt(p, enc.val, salt) ELSE [p |-> p, val |-> enc.val]
        item == IF a.has_tag
                THEN IF a.type = "integer" THEN <<tag>> \o From(sc.val, 1) ELSE <<tag>> \o sc.val
                ELSE sc.val
    IN  IF enc.st # "ok" THEN [st |-> enc.st, p |-> p]
        ELSE [st |-> "ok", p |-> [sc.p EXCEPT !.attrs = SetItem(sc.p.attrs, a.key, << item >>)]]

\* Packet.add_attribute(name, value) for one value: encoded as by
\* pkt[name] = value, then appended to the values already under the key
AddAttribute(p, name, tag, value, salt) ==
    LET a   == DictAttr(name)
        r   == SetItemName([p EXCEPT !.attrs = << >>], name, tag, value, salt)
        old == IF HasKey(p.attrs, a.key) THEN GetItem(p.attrs, a.key) ELSE << >>
    IN  IF r.st # "ok" THEN [st |-> r.st, p |-> p]
        ELSE [st |-> "ok",
              p |-> [r.p EXCEPT !.attrs = SetItem(p.attrs, a.key, old \o GetItem(r.p.attrs, a.key))]]

\* create_raw_request drawing an authenticator on every call
EnsureAuthenticator_Fresh(p, rnd) == [p EXCEPT !.authenticator = rnd]

\* Lines 621-622 of AuthPacket.create_raw_request:
\* if self.authenticator is None: self.authenticator = self.create_authenticator()
EnsureAuthenticator(p, rnd) ==
    IF p.authenticator = None THEN [p EXCEPT !.authenticator = rnd] ELSE p

\* The rest of AuthPacket.create_raw_request, the authenticator being set
AuthEncodeRequest(q) ==
    LET r    == IF q.message_authenticator THEN RefreshMessageAuthenticator(q)
                ELSE [st |-> "ok", p |-> q]
        attr == PktEncodeAttributes(r.p.attrs)
        eaph == <<r.p.code, r.p.id>> \o PackH(20 + 18 + Len(attr)) \o r.p.authenticator
        dig  == HMAC(r.p.secret, eaph \o attr \o <<80, 18>> \o Zeros(16))
    IN  IF r.st # "ok" THEN [st |-> r.st, p |-> r.p, raw |-> << >>]
        ELSE IF r.p.auth_type = "eap-md5"
        THEN [st |-> "ok", p |-> r.p, raw |-> eaph \o attr \o <<80, 18>> \o dig]
        ELSE [st |-> "ok", p |-> r.p,
              raw |-> <<r.p.code, r.p.id>> \o PackH(20 + Len(attr)) \o r.p.authenticator \o attr]

\* AuthPacket.create_raw_request; rnd is what create_authenticator() returns
\* if it is called.  Result: st, the packet afterwards, the datagram.
AuthCreateRawRequest(p, rnd) == AuthEncodeRequest(EnsureAuthenticator(p, rnd))

\* AcctPacket.create_raw_request
AcctCreateRawRequest(p) ==
    LET r      == IF p.message_authenticator THEN RefreshMessageAuthenticator(p)
                  ELSE [st |-> "ok", p |-> p]
        attr   == PktEncodeAttributes(r.p.attrs)
        header == EncodeHeader(r.p.code, r.p.id, attr)
        auth   == MD5(header \o Zeros(16) \o attr \o r.p.secret)
    IN  IF r.st # "ok" THEN [st |-> r.st, p |-> r.p, raw |-> << >>]
        ELSE [st |-> "ok", p |-> [r.p EXCEPT !.authenticator = auth],
              raw |-> header \o auth \o attr]

\* CoAPacket.create_raw_request: the header is built from the attributes as
\* they are before the Message-Authenticator is refreshed
CoACreateRawRequest(p) ==
    LET attr0  == PktEncodeAttributes(p.attrs)
        header == EncodeHeader(p.code, p.id, attr0)
        auth0  == MD5(header \o Zeros(16) \o attr0 \o p.secret)
        p1     == [p EXCEPT !.authenticator = auth0]
        r      == RefreshMessageAuthenticator(p1)
        attr1  == PktEncodeAttributes(r.p.attrs)
        auth1  == MD5(header \o Zeros(16) \o attr1 \o p.secret)
    IN  IF ~p.message_authenticator
        THEN [st |-> "ok", p |-> p1, raw |-> header \o auth0 \o attr0]
        ELSE IF r.st # "ok" THEN [st |-> r.st, p |-> r.p, raw |-> << >>]
        ELSE [st |-> "ok", p |-> [r.p EXCEPT !.authenticator = auth1],
              raw |-> header \o auth1 \o attr1]

\* pkt.create_raw_request() of the packet's class
CreateRawRequest(p, rnd) ==
    IF p.kind = "auth" THEN AuthCreateRawRequest(p, rnd)
    ELSE IF p.kind = "acct" THEN AcctCreateRawRequest(p)
    ELSE CoACreateRawRequest(p)

\* The code a reply of the packet's class is created with
ReplyCode(kind) ==
    IF kind = "packet" THEN 0
    ELSE IF kind = "auth" THEN ACCESS_ACCEPT
    ELSE IF kind = "acct" THEN ACCOUNTING_RESPONSE
    ELSE COA_ACK

\* pkt.create_reply(**attributes) without packet=: id, secret and
\* authenticator copied, the attributes given as raw (key, values) entries
CreateReply(p, attrs) ==
    [kind |-> p.kind, code |-> ReplyCode(p.kind), id |-> p.id, secret |-> p.secret,
     authenticator |-> p.authenticator, message_authenticator |-> FALSE,
     auth_type |-> p.auth_type, attrs |-> attrs]

\* key.replace('_', '-') of the keywords used
KwName(kw) ==
    CASE kw = "Reply_Message"   -> "Reply-Message"
      [] kw = "Tunnel_Password" -> "Tunnel-Password"
      [] kw = "User_Name"       -> "User-Name"

\* The loop of Packet.__init__ over the keyword arguments left:
\* self.add_attribute(key.replace('_', '-'), value)
RECURSIVE AddAttributes(_, _, _)
AddAttributes(p, kwargs, salt) ==
    IF kwargs = << >> THEN [st |-> "ok", p |-> p]
    ELSE LET r == AddAttribute(p, KwName(kwargs[1].kw), 0, kwargs[1].value, salt)
         IN  IF r.st # "ok" THEN r ELSE AddAttributes(r.p, Tail(kwargs), salt)

\* pkt.create_reply(**kwargs) with attributes given by keyword
CreateReplyWith(p, kwargs, salt) == AddAttributes(CreateReply(p, << >>), kwargs, salt)

\* pkt.create_reply(packet=raw): Packet.__init__ runs decode_packet, which
\* overwrites code, id and authenticator with the datagram's
CreateReplyFromRaw(p, raw) ==
    LET d == DecodePacket(raw)
    IN  [st |-> d.st,
         p  |-> [kind |-> p.kind, code |-> d.code, id |-> d.id, secret |-> p.secret,
                 authenticator |-> d.authenticator,
                 message_authenticator |-> d.message_authenticator,
                 auth_type |-> p.auth_type, attrs |-> d.attrs]]

\* Packet.create_raw_reply
CreateRawReply(p) ==
    LET r      == IF p.message_authenticator THEN RefreshMessageAuthenticator(p)
                  ELSE [st |-> "ok", p |-> p]
        attr   == PktEncodeAttributes(r.p.attrs)
        header == EncodeHeader(r.p.code, r.p.id, attr)
    IN  IF p.authenticator = None THEN [st |-> "ValueError", p |-> p, raw |-> << >>]
        ELSE IF r.st # "ok" THEN [st |-> r.st, p |-> r.p, raw |-> << >>]
        ELSE [st |-> "ok", p |-> r.p,
              raw |-> header \o MD5(header \o r.p.authenticator \o attr \o r.p.secret) \o attr]

\* Packet.verify_reply(reply, rawreply): the hash is taken over the reply's
\* attributes as encoded again from the decoded reply
VerifyReply(p, reply, rawreply) ==
    IF reply.id # p.id THEN FALSE
    ELSE LET attr == PktEncodeAttributes(reply.attrs)
         IN  MD5(Slice(rawreply, 0, 4) \o p.authenticator \o attr \o p.secret)
                 = Slice(rawreply, 4, 20)

\* verify_acct_request / verify_coa_request of a packet decoded from
\* raw_packet with the given secret
VerifyRequest(raw_packet, secret, authenticator) ==
    MD5(Slice(raw_packet, 0, 4) \o Zeros(16) \o From(raw_packet, 20) \o secret) = authenticator

(***************************************************************************)
(* The password methods of AuthPacket                                      *)
(***************************************************************************)

\* The loop of AuthPacket.radius_password_pseudo_hash: every 16 octets of
\* buf are XORed with MD5(secret + last), and `last` becomes the 16 octets
\* of buf just consumed, (last, buf) = (buf[:16], buf[16:])
RECURSIVE PseudoHashBlocks(_, _, _, _)
PseudoHashBlocks(secret, last, buf, result) ==
    IF buf = << >> THEN result
    ELSE PseudoHashBlocks(secret, Slice(buf, 0, 16), From(buf, 16),
                          result \o XorZip(buf, MD5(secret \o last)))

\* AuthPacket.radius_password_pseudo_hash(password)
radius_password_pseudo_hash(p, pw) ==
    PseudoHashBlocks(p.secret, p.authenticator, pw, << >>)

\* AuthPacket.pw_crypt(password), the password given as its UTF-8 octets;
\* rnd is what create_authenticator() returns if it is called
pw_crypt(p, pw, rnd) ==
    LET q   == EnsureAuthenticator(p, rnd)
        buf == IF Len(pw) % 16 # 0 THEN pw \o Zeros(16 - (Len(pw) % 16)) ELSE pw
    IN  [p |-> q, val |-> radius_password_pseudo_hash(q, buf)]

\* bytes.rstrip(b'\x00')
RECURSIVE RStripZeros(_)
RStripZeros(s) ==
    IF s = << >> THEN s
    ELSE IF s[Len(s)] = 0 THEN RStripZeros(Slice(s, 0, Len(s) - 1))
    ELSE s

\* Whether the octets of s from the i-th on are well-formed UTF-8, as
\* bytes.decode('utf-8') requires
RECURSIVE Utf8From(_, _)
Utf8From(s, i) ==
    LET cont(j, lo, hi) == j <= Len(s) /\ s[j] >= lo /\ s[j] <= hi
        b == s[i]
    IN  IF i > Len(s) THEN TRUE
        ELSE IF b <= 127 THEN Utf8From(s, i + 1)
        ELSE IF b >= 194 /\ b <= 223 THEN cont(i + 1, 128, 191) /\ Utf8From(s, i + 2)
        ELSE IF b >= 224 /\ b <= 239
        THEN /\ cont(i + 1, IF b = 224 THEN 160 ELSE 128, IF b = 237 THEN 159 ELSE 191)
             /\ cont(i + 2, 128, 191)
             /\ Utf8From(s, i + 3)
        ELSE IF b >= 240 /\ b <= 244
        THEN /\ cont(i + 1, IF b = 240 THEN 144 ELSE 128, IF b = 244 THEN 143 ELSE 191)
             /\ cont(i + 2, 128, 191)
             /\ cont(i + 3, 128, 191)
             /\ Utf8From(s, i + 4)
        ELSE FALSE

\* AuthPacket.pw_decrypt(password): the string returned, as its UTF-8
\* octets, or the exception of pw.decode('utf-8')
pw_decrypt(p, cipher) ==
    LET pw == RStripZeros(radius_password_pseudo_hash(p, cipher))
    IN  IF Utf8From(pw, 1) THEN [st |-> "ok", val |-> pw]
        ELSE [st |-> "UnicodeDecodeError", val |-> << >>]

\* chr(c).encode('utf-8') for an octet c
ChrUtf8(c) == IF c <= 127 THEN <<c>> ELSE <<192 + (c \div 64), 128 + (c % 64)>>

IsSpace(c) == c \in {9, 10, 11, 12, 13, 28, 29, 30, 31, 32}

\* str.strip() on a string of ASCII characters
RECURSIVE Strip(_)
Strip(s) ==
    IF s = << >> THEN s
    ELSE IF IsSpace(s[1]) THEN Strip(From(s, 1))
    ELSE IF IsSpace(s[Len(s)]) THEN Strip(Slice(s, 0, Len(s) - 1))
    ELSE s

\* AuthPacket.verify_chap_passwd(userpwd); isstr: userpwd is a str (given
\* here as its UTF-8 octets) and not bytes; rnd is what
\* create_authenticator() returns if it is called
verify_chap_passwd(p, userpwd, isstr, rnd) ==
    LET q         == EnsureAuthenticator(p, rnd)
        pwd       == IF isstr THEN Strip(userpwd) ELSE userpwd
        chap_pw   == GetItem(q.attrs, Key(3))[1]
        chapid    == ChrUtf8(chap_pw[1])
        challenge == IF HasKey(q.attrs, DictAttr("CHAP-Challenge").key)
                     THEN GetItem(q.attrs, DictAttr("CHAP-Challenge").key)[1]
                     ELSE q.authenticator
    IN  IF ~HasKey(q.attrs, Key(3)) THEN [st |-> "TypeError", val |-> FALSE, p |-> q]
        ELSE IF Len(chap_pw) # 17 THEN [st |-> "ok", val |-> FALSE, p |-> q]
        ELSE [st |-> "ok", p |-> q,
              val |-> From(chap_pw, 1) = MD5(chapid \o pwd \o challenge)]

(***************************************************************************)
(* Bounds of the model                                                     *)
(***************************************************************************)

\* retries ranges over 0..MaxRetries
MaxRetries == 3

\* timeout ranges over 1..MaxTimeout half seconds
MaxTimeout == 2

\* datagrams the network delivers to the client's socket during one call
MaxDeliver == 2

\* datagrams the socket holds unread at one time
MaxQueue == 1

(***************************************************************************)
(* State                                                                   *)
(***************************************************************************)

VARIABLES
    \* Client._send_packet(pkt, port)
    pkt,        \* the packet object handed to send_packet (it is mutated)
    pkt0,       \* the packet as it was when send_packet was called
    retries,    \* self.retries
    timeout,    \* self.timeout, in half seconds
    attempt,    \* the loop variable of `for attempt in range(self.retries)`
    pc,         \* "for": at the head of the for loop; "wait": at the head of
                \* the while loop; "done": returned or raised; "hung"
    now,        \* the local `now`
    waitto,     \* the local `waitto`
    outcome,    \* "none" | "returned" | "Timeout" | "AttributeError"
    reply,      \* the packet returned
    \* the environment of the client
    clock,      \* what time.time() returns, in half seconds
    sockbuf,    \* datagrams received by the socket and not yet read
    sent,       \* the datagrams given to sendto, in order
    delivered,  \* how many datagrams the network has delivered
    lastRx,     \* the datagram read last and what became of it
    dropped,    \* datagrams discarded since the last transmission
    host,       \* self.authport, self.acctport, self.coaport of the client
    port,       \* the parameter `port` of _send_packet
    sentto,     \* the port each datagram of `sent` was given to sendto with
    \* a packet built, serialized, decoded and answered (pyrad/packet.py)
    cpc,        \* "build" | "sent" | "decoded" | "received" | "reencoded" |
                \* "reply" | "rawreply" | "verified" | "error"
    request,    \* the request packet object
    request0,   \* the request as its constructor left it
    nops,       \* attribute operations done on the request
    drawn,      \* the values create_authenticator() has returned
    wire,       \* the request datagram, or a datagram received
    dec,        \* what decode_packet made of wire
    rep,        \* the reply packet object
    rawrep,     \* the reply datagram
    verdict,    \* the result of the last verify_* call, and its secret
    reenc,      \* the attribute octets encoded again from dec
    err,        \* the exception raised, "none" if none
    \* the password methods of an AuthPacket (pw_crypt, pw_decrypt,
    \* verify_chap_passwd)
    apc,        \* "new" | "crypted" | "decrypted" | "chap" | "checked"
    apkt,       \* the AuthPacket
    password,   \* the plaintext password, as its UTF-8 octets
    crypted,    \* what pw_crypt returned
    decrypted,  \* what pw_decrypt returned, or the exception it raised
    chap,       \* the CHAP exchange: the peer's id, password and challenge,
                \* the password given to verify_chap_passwd and its result
    \* a packet carrying Message-Authenticator
    mpc,        \* "build" | "serialized" | "verified" | "error"
    mp,         \* the packet object
    mnops,      \* attribute operations done on it
    mraw,       \* the datagrams of its serializations, in order
    mac,        \* its attribute 80 after each serialization, in order
    mverify,    \* what verify_message_authenticator() gave
    \* the packet id counter and the constructors
    current_id, \* the module-level current_id of packet.py
    issued,     \* the ids of the packets constructed without an id, in order
    created,    \* the create_id() call made last: the counter before it and
                \* the value returned
    built,      \* the packet constructed last
    built0,     \* that packet as its constructor left it
    derived,    \* the packet create_reply returned
    passed,     \* the attributes that were passed to create_reply
    \* Client.send_packet of an AuthPacket with auth_type eap-md5
    epc,        \* "idle" | "wait1" | "wait2" | "done"
    epkt,       \* the AuthPacket handed to send_packet (it is mutated)
    eflights,   \* the datagrams sent, one for each flight
    echallenge, \* the Access-Challenge the first flight was answered with:
                \* its datagram and the packet decoded from it
    eothers,    \* packets constructed after epkt and before send_packet
    edropped,   \* datagrams _send_packet read and discarded
    eoutcome,   \* "none" | "reply" | "Timeout" | the exception raised
    ereturned,  \* the code of the reply send_packet returned, 0 for none
    \* the server main loop (Server.run)
    spc,        \* "poll": in poll(); "for": in the loop over its result;
                \* "hung": inside a call that does not return
    spending,   \* the events poll() returned that are not yet processed
    sevents,    \* how many events poll() has returned so far
    slog,       \* what became of each event processed, in order
    shandled,   \* the handler calls made, in order
    ssent,      \* the datagrams given to sendto, in order
    \* single calls of encode_string, pkt[name] = value, salt_crypt, create_reply
    xpc,        \* "idle", or the call made last
    xin,        \* the arguments of the call made
    xout        \* what the call returned, or the packet it left

clvars == <<pkt, pkt0, retries, timeout, attempt, pc, now, waitto, outcome, reply,
            clock, sockbuf, sent, delivered, lastRx, dropped, host, port, sentto>>

cvars == <<cpc, request, request0, nops, drawn, wire, dec, rep, rawrep, verdict, reenc, err>>

avars == <<apc, apkt, password, crypted, decrypted, chap>>

mvars == <<mpc, mp, mnops, mraw, mac, mverify>>

kvars == <<current_id, issued, created, built, built0, derived, passed>>

evars == <<epc, epkt, eflights, echallenge, eothers, edropped, eoutcome, ereturned>>

svars == <<spc, spending, sevents, slog, shandled, ssent>>

xvars == <<xpc, xin, xout>>

vars == <<clvars, cvars, avars, mvars, kvars, evars, svars, xvars>>

\* The variables each part of the model leaves alone
nonClient == <<cvars, avars, mvars, kvars, evars, svars, xvars>>
nonCodec == <<clvars, avars, mvars, kvars, evars, svars, xvars>>
nonAuth == <<clvars, cvars, mvars, kvars, evars, svars, xvars>>
nonMa == <<clvars, cvars, avars, kvars, evars, svars, xvars>>
nonConstruct == <<clvars, cvars, avars, mvars, evars, svars, xvars>>
nonEap == <<clvars, cvars, avars, mvars, svars, xvars>>
nonServer == <<clvars, cvars, avars, mvars, kvars, evars, xvars>>
nonEncode == <<clvars, cvars, avars, mvars, kvars, evars, svars>>

(***************************************************************************)
(* The client: Client._send_packet                                         *)
(***************************************************************************)

Secret == <<115>>
OtherSecret == <<116>>

\* What secrets.token_bytes(16) may return
RandomAuthenticators == { [i \in 1..16 |-> IF i = 1 THEN r ELSE 0] : r \in {17, 201} }

\* The packets send_packet is called with: built by Client.create_auth_packet,
\* create_acct_packet, create_coa_packet (the client's secret, the next id)
\* and filled by the caller.
WithAttrs(p, attrs) == [p EXCEPT !.attrs = attrs]

ClientPackets ==
    { WithAttrs(NewPacket("auth", ACCESS_REQUEST, 7, Secret, None, FALSE, "pap"),
                << [key |-> Key(1), vals |-> << <<97>> >>] >>),
      WithAttrs(NewPacket("acct", ACCOUNTING_REQUEST, 7, Secret, None, FALSE, "pap"),
                << [key |-> Key(1), vals |-> << <<97>> >>] >>),
      WithAttrs(NewPacket("acct", ACCOUNTING_REQUEST, 7, Secret, None, FALSE, "pap"),
                << [key |-> Key(41), vals |-> << PackL(3) >>],
                   [key |-> Key(1), vals |-> << <<97>> >>] >>),
      WithAttrs(NewPacket("coa", COA_REQUEST, 7, Secret, None, FALSE, "pap"),
                << [key |-> Key(1), vals |-> << <<97>> >>] >>),
      WithAttrs(NewPacket("coa", DISCONNECT_REQUEST, 7, Secret, None, FALSE, "pap"),
                << [key |-> Key(1), vals |-> << <<97>> >>] >>) }

\* Client.__init__ / Host.__init__: the ports of a client made without
\* authport=, acctport= and coaport=
DefaultAuthPort == 1812
DefaultAcctPort == 1813
DefaultCoaPort == 3799

Hosts ==
    { [authport |-> DefaultAuthPort, acctport |-> DefaultAcctPort, coaport |-> DefaultCoaPort] }

\* SendPacketPort with a CoAPacket falling through to the else branch
SendPacketPort_CoaAsAcct(p, h) ==
    IF p.kind = "auth" THEN h.authport ELSE h.acctport

\* Client.send_packet: the port it calls _send_packet with, by the class of
\* the packet (isinstance AuthPacket, isinstance CoAPacket, else)
SendPacketPort(p, h) ==
    IF p.kind = "auth" THEN h.authport
    ELSE IF p.kind = "coa" THEN h.coaport
    ELSE h.acctport

\* AcctDelayUpdate with the timeout stored instead of added to the value
\* the packet has
AcctDelayUpdate_NotAdded(p, att, tmo) ==
    IF att # 0 /\ p.code = ACCOUNTING_REQUEST
    THEN SetItemName(p, "Acct-Delay-Time", 0, tmo, 0).p
    ELSE p

\* Lines 143-148: the Acct-Delay-Time of a retry.  pkt["Acct-Delay-Time"][0]
\* is the first value decoded; the sum goes through encode_integer.
AcctDelayUpdate(p, att, tmo) ==
    IF att # 0 /\ p.code = ACCOUNTING_REQUEST
    THEN IF HasKey(p.attrs, Key(41))
         THEN SetItemName(p, "Acct-Delay-Time", 0,
                          Halves(decode_integer(GetItem(p.attrs, Key(41))[1])) + tmo, 0).p
         ELSE SetItemName(p, "Acct-Delay-Time", 0, tmo, 0).p
    ELSE p

\* range(self.retries): whether the for loop has another iteration
HasAttempt(att, n) == att < n

\* HandleDatagram with the reply returned without verify_reply
HandleDatagram_Unverified(p, raw) ==
    LET r == CreateReplyFromRaw(p, raw)
    IN  IF r.st = "PacketError" THEN "raise"
        ELSE IF r.st = "hang" THEN "hang"
        ELSE "return"

\* Lines 164-169: what becomes of a datagram read from the socket.
\* "raise": decode_packet raised PacketError inside the try; "return": the
\* reply verified; "discard": it did not; "hang": the decoder never returns.
HandleDatagram(p, raw) ==
    LET r == CreateReplyFromRaw(p, raw)
    IN  IF r.st = "PacketError" THEN "raise"
        ELSE IF r.st = "hang" THEN "hang"
        ELSE IF VerifyReply(p, r.p, raw) THEN "return"
        ELSE "discard"

\* Line 168, `except PacketCode.PacketError:`.  PacketCode is the IntEnum of
\* packet codes and has no member PacketError (the exception class is
\* packet.PacketError): evaluating the except clause raises AttributeError,
\* which leaves _send_packet.
ExceptClause == "AttributeError"

\* The reply a RADIUS server sends to the request datagram req: the given
\* code and attribute octets, the request's id, and the Response
\* Authenticator MD5(code || id || length || RequestAuthenticator ||
\* attributes || secret) over the octets it sends (Packet.create_raw_reply).
ServerReply(req, secret, code, id, attr) ==
    LET header == EncodeHeader(code, id, attr)
    IN  header \o MD5(header \o Slice(req, 4, 20) \o attr \o secret) \o attr

\* Attribute octets of replies: one attribute; two values of attribute 18
\* with attribute 1 between them; the same three in the order in which the
\* decoder's map gives them back.
OneAttr == <<18, 3, 111>>
Interleaved == <<18, 3, 111, 1, 3, 97, 18, 3, 107>>
Regrouped == <<18, 3, 111, 18, 3, 107, 1, 3, 97>>

\* The kinds of datagram that may arrive in answer to a request
ArrivalForms ==
    { "good",         \* the server's reply, one attribute
      "interleaved",  \* the server's reply, attributes of one type interleaved
      "otherid",      \* the reply to another request
      "othersecret",  \* a reply made with another secret
      "regrouped",    \* interleaved attributes under the authenticator of the
                      \* regrouped ones
      "badlength",    \* Length one more than the datagram holds
      "attrlen1",     \* an attribute of length 1
      "cutheader" }   \* a datagram cut inside the header

\* The datagram of the given form in answer to the request datagram req
Arrival(req, kind, form) ==
    LET code == ReplyCode(kind)
        id   == req[2]
        good == ServerReply(req, Secret, code, id, OneAttr)
    IN  CASE form = "good"        -> good
          [] form = "interleaved" -> ServerReply(req, Secret, code, id, Interleaved)
          [] form = "otherid"     -> ServerReply(req, Secret, code, (id + 1) % 256, OneAttr)
          [] form = "othersecret" -> ServerReply(req, OtherSecret, code, id, OneAttr)
          [] form = "regrouped"   ->
                Slice(ServerReply(req, Secret, code, id, Regrouped), 0, 20) \o Interleaved
          [] form = "badlength"   -> <<code, id>> \o PackH(Len(good) + 1) \o From(good, 4)
          [] form = "attrlen1"    -> ServerReply(req, Secret, code, id, <<18, 1>>)
          [] form = "cutheader"   -> Slice(good, 0, 12)

\* The datagram an entry [k, form] of the socket buffer stands for: the
\* answer of that form to the k-th transmission
Datagram(e) == Arrival(sent[e.k], pkt.kind, e.form)

\* One iteration of the for loop up to the while loop: lines 142-153.
SendAttempt ==
    /\ UNCHANGED nonClient
    /\ pc = "for"
    /\ HasAttempt(attempt, retries)
    /\ \E rnd \in RandomAuthenticators :
          LET p1 == AcctDelayUpdate(pkt, attempt, timeout)
              r  == CreateRawRequest(p1, rnd)
          IN  /\ r.st = "ok"
              /\ pkt' = r.p
              /\ sent' = Append(sent, r.raw)
    /\ sentto' = Append(sentto, port)
    /\ now' = clock
    /\ waitto' = clock + timeout
    /\ dropped' = 0
    /\ pc' = "wait"
    /\ UNCHANGED <<pkt0, retries, timeout, attempt, outcome, reply, clock, sockbuf,
                   delivered, lastRx, host, port>>

\* The for loop is exhausted: line 173, raise Timeout.
RaiseTimeout ==
    /\ UNCHANGED nonClient
    /\ UNCHANGED <<host, port, sentto>>
    /\ pc = "for"
    /\ ~HasAttempt(attempt, retries)
    /\ outcome' = "Timeout"
    /\ pc' = "done"
    /\ UNCHANGED <<pkt, pkt0, retries, timeout, attempt, now, waitto, reply, clock,
                   sockbuf, sent, delivered, lastRx, dropped>>

\* `while now < waitto` is false: the next iteration of the for loop.
WindowClosed ==
    /\ UNCHANGED nonClient
    /\ UNCHANGED <<host, port, sentto>>
    /\ pc = "wait"
    /\ ~(now < waitto)
    /\ attempt' = attempt + 1
    /\ pc' = "for"
    /\ UNCHANGED <<pkt, pkt0, retries, timeout, now, waitto, outcome, reply, clock,
                   sockbuf, sent, delivered, lastRx, dropped>>

\* poll() reports the socket readable: lines 159, 164-171.
PollReady ==
    /\ UNCHANGED nonClient
    /\ UNCHANGED <<host, port, sentto>>
    /\ pc = "wait"
    /\ now < waitto
    /\ sockbuf # << >>
    /\ LET raw == Datagram(Head(sockbuf))
           h   == HandleDatagram(pkt, raw)
       IN  /\ sockbuf' = Tail(sockbuf)
           /\ lastRx' = [raw |-> raw, res |-> h, attempt |-> attempt]
           /\ IF h = "return"
              THEN /\ outcome' = "returned"
                   /\ reply' = CreateReplyFromRaw(pkt, raw).p
                   /\ pc' = "done"
                   /\ UNCHANGED <<now, dropped>>
              ELSE IF h = "raise"
              THEN /\ outcome' = ExceptClause
                   /\ pc' = "done"
                   /\ UNCHANGED <<now, reply, dropped>>
              ELSE IF h = "hang"
              THEN /\ pc' = "hung"
                   /\ UNCHANGED <<now, outcome, reply, dropped>>
              ELSE /\ now' = clock
                   /\ dropped' = dropped + 1
                   /\ UNCHANGED <<pc, outcome, reply>>
    /\ UNCHANGED <<pkt, pkt0, retries, timeout, attempt, waitto, clock, sent, delivered>>

\* poll() returns nothing after its timeout: lines 160-162.
PollTimeout ==
    /\ UNCHANGED nonClient
    /\ UNCHANGED <<host, port, sentto>>
    /\ pc = "wait"
    /\ now < waitto
    /\ sockbuf = << >>
    /\ clock >= waitto
    /\ now' = clock
    /\ UNCHANGED <<pkt, pkt0, retries, timeout, attempt, pc, waitto, outcome, reply,
                   clock, sockbuf, sent, delivered, lastRx, dropped>>

(***************************************************************************)
(* The environment: the clock and the network                              *)
(***************************************************************************)

\* Time passes while the client waits in poll().
Tick ==
    /\ UNCHANGED nonClient
    /\ UNCHANGED <<host, port, sentto>>
    /\ pc = "wait"
    /\ clock < waitto
    /\ clock' = clock + 1
    /\ UNCHANGED <<pkt, pkt0, retries, timeout, attempt, pc, now, waitto, outcome,
                   reply, sockbuf, sent, delivered, lastRx, dropped>>

\* A datagram arrives at the client's socket: an answer to the transmission
\* in progress, or the server's late reply to an earlier one.
Deliver ==
    /\ UNCHANGED nonClient
    /\ UNCHANGED <<host, port, sentto>>
    /\ pc = "wait"
    /\ delivered < MaxDeliver
    /\ Len(sockbuf) < MaxQueue
    /\ \E k \in 1..Len(sent) : \E f \in ArrivalForms :
          /\ k < Len(sent) => f = "good"
          /\ sockbuf' = Append(sockbuf, [k |-> k, form |-> f])
    /\ delivered' = delivered + 1
    /\ UNCHANGED <<pkt, pkt0, retries, timeout, attempt, pc, now, waitto, outcome,
                   reply, clock, sent, lastRx, dropped>>

NoPacket == NewPacket("none", 0, 0, << >>, None, FALSE, "pap")

NoVerdict == [secret |-> << >>, ok |-> FALSE]

NoResult == [st |-> "none", val |-> << >>]

NoChap == [id |-> 0, secret |-> << >>, challenge |-> << >>, userpwd |-> << >>,
           isstr |-> FALSE, result |-> "none"]

NoCall == [op |-> "none", prev |-> 0, ret |-> 0]

\* No packet is being built
CodecIdle ==
    /\ cpc = "idle"
    /\ request = NoPacket /\ request0 = NoPacket /\ rep = NoPacket
    /\ nops = 0 /\ drawn = << >>
    /\ wire = << >> /\ rawrep = << >> /\ reenc = << >>
    /\ dec = DecodePacket(<< >>)
    /\ verdict = NoVerdict
    /\ err = "none"

NoRx == [raw |-> << >>, res |-> "none", attempt |-> 0]

\* No AuthPacket password method is in use
AuthIdle ==
    /\ apc = "idle"
    /\ apkt = NoPacket
    /\ password = << >> /\ crypted = << >>
    /\ decrypted = NoResult
    /\ chap = NoChap

\* No packet with Message-Authenticator is in use
MaIdle ==
    /\ mpc = "idle"
    /\ mp = NoPacket
    /\ mnops = 0
    /\ mraw = << >> /\ mac = << >>
    /\ mverify = "none"

\* No packet is being constructed
ConstructIdle ==
    /\ current_id = 0
    /\ issued = << >>
    /\ created = NoCall
    /\ built = NoPacket /\ built0 = NoPacket /\ derived = NoPacket
    /\ passed = << >>

NoChallenge == [raw |-> << >>, p |-> NoPacket]

\* No eap-md5 exchange is in progress
EapIdle ==
    /\ epc = "idle"
    /\ epkt = NoPacket
    /\ eflights = << >>
    /\ echallenge = NoChallenge
    /\ eothers = 0
    /\ edropped = 0
    /\ eoutcome = "none"
    /\ ereturned = 0

\* No server is running
ServerIdle ==
    /\ spc = "idle"
    /\ spending = << >>
    /\ sevents = 0
    /\ slog = << >> /\ shandled = << >> /\ ssent = << >>

\* No encoder is in use
EncodeIdle ==
    /\ xpc = "idle"
    /\ xin = << >>
    /\ xout = << >>

\* The parts of the model added last are not in use
RestIdle == EapIdle /\ ServerIdle /\ EncodeIdle

\* No send_packet call is in progress
ClientIdle ==
    /\ pkt = NoPacket /\ pkt0 = NoPacket /\ reply = NoPacket
    /\ retries = 0 /\ timeout = 1 /\ attempt = 0
    /\ pc = "idle" /\ outcome = "none"
    /\ now = 0 /\ waitto = 0 /\ clock = 0
    /\ sockbuf = << >> /\ sent = << >> /\ sentto = << >>
    /\ delivered = 0 /\ dropped = 0
    /\ lastRx = NoRx
    /\ host = [authport |-> DefaultAuthPort, acctport |-> DefaultAcctPort,
               coaport |-> DefaultCoaPort]
    /\ port = 0

Init ==
    /\ pkt \in ClientPackets
    /\ pkt0 = pkt
    /\ retries \in 0..MaxRetries
    /\ timeout \in 1..MaxTimeout
    /\ attempt = 0
    /\ pc = "for"
    /\ now = 0
    /\ waitto = 0
    /\ outcome = "none"
    /\ reply = NoPacket
    /\ clock = 0
    /\ sockbuf = << >>
    /\ sent = << >>
    /\ delivered = 0
    /\ lastRx = NoRx
    /\ dropped = 0
    /\ host \in Hosts
    /\ port = SendPacketPort(pkt, host)
    /\ sentto = << >>
    /\ CodecIdle
    /\ AuthIdle
    /\ MaIdle
    /\ ConstructIdle
    /\ RestIdle

Next ==
    \/ SendAttempt
    \/ RaiseTimeout
    \/ WindowClosed
    \/ PollReady
    \/ PollTimeout
    \/ Tick
    \/ Deliver

Spec == Init /\ [][Next]_vars

(***************************************************************************)
(* Properties of the client (checked under Spec)                           *)
(***************************************************************************)

\* This step reads the datagram at the head of the socket buffer
\* (PollReady; no other action shortens the buffer).
ReadsDatagram == pc = "wait" /\ sockbuf # << >> /\ sockbuf' = Tail(sockbuf)

\* The datagram about to be read
HeadDatagram == Datagram(Head(sockbuf))

\* The datagram decodes without error
WellFormed(raw) == DecodePacket(raw).st = "ok"

\* The Response Authenticator of RFC 2865 over the datagram as received:
\* the id is the request's and octets 4..19 are
\* MD5(code || id || length || RequestAuthenticator || attributes || secret)
RfcValid(q, raw) ==
    /\ raw[2] = q.id
    /\ Slice(raw, 4, 20)
         = MD5(Slice(raw, 0, 4) \o q.authenticator \o From(raw, 20) \o q.secret)

\* C1: _send_packet transmits once per attempt and at most `retries` times;
\* when it ends without a verified reply it has raised Timeout, after
\* exactly `retries` transmissions (none when retries = 0) and with the last
\* attempt's window over.
C1_TimeoutAfterRetries ==
    /\ Len(sent) <= retries
    /\ pc = "for" => Len(sent) = attempt
    /\ pc = "wait" => Len(sent) = attempt + 1
    /\ (pc = "done" /\ outcome # "returned")
          => /\ outcome = "Timeout"
             /\ Len(sent) = retries
             /\ retries > 0 => now >= waitto

\* C2: verify_reply accepts a well-formed reply datagram if and only if its
\* id is the request's and its authenticator field is the MD5 over the
\* header, the Request Authenticator, the attributes as received and the
\* secret.
C2_VerifyReplyIffRfcValid ==
    [][(ReadsDatagram /\ WellFormed(HeadDatagram))
          => ((outcome' = "returned") <=> RfcValid(pkt, HeadDatagram))]_vars

C4_UndecodableDatagramIgnored ==
    [][(ReadsDatagram /\ DecodePacket(HeadDatagram).st = "PacketError")
          => /\ pc' = "wait" /\ outcome' = "none"
             /\ attempt' = attempt /\ waitto' = waitto /\ sent' = sent]_vars

\* The Acct-Delay-Time a transmitted datagram carries; -1 when it has none
Carried(raw) ==
    LET a == DecodePacket(raw).attrs
    IN  IF HasKey(a, Key(41)) THEN decode_integer(GetItem(a, Key(41))[1]) ELSE -1

\* d0: the Acct-Delay-Time of the packet before send_packet, 0 if absent
D0 == IF HasKey(pkt0.attrs, Key(41)) THEN decode_integer(GetItem(pkt0.attrs, Key(41))[1]) ELSE 0

\* d0 with the timeout added k-1 times, cut to a whole number each time
RECURSIVE Truncated(_)
Truncated(k) == IF k = 1 THEN D0 ELSE IntOf(Halves(Truncated(k - 1)) + timeout)

\* What C5 says of every transmission but the Acct-Delay-Time of a retry:
\* the first transmission carries the packet's attributes as they were, and
\* a packet that is no Accounting-Request carries the same attributes on
\* every attempt.
C5_Unchanged(k) ==
    /\ k = 1 => From(sent[1], 20) = PktEncodeAttributes(pkt0.attrs)
    /\ pkt0.code # ACCOUNTING_REQUEST => From(sent[k], 20) = From(sent[1], 20)

\* C5 (as stated): the k-th transmission of an Accounting-Request, k >= 2,
\* carries Acct-Delay-Time = d0 + (k-1)*t.
C5_AcctDelayLinear ==
    \A k \in 1..Len(sent) :
        /\ C5_Unchanged(k)
        /\ (k >= 2 /\ pkt0.code = ACCOUNTING_REQUEST)
              => Halves(Carried(sent[k])) = Halves(D0) + (k - 1) * timeout

\* C5 (amended): the k-th transmission of an Accounting-Request, k >= 2,
\* carries the whole number got from d0 by adding t and truncating, k-1
\* times; that is d0 + (k-1)*t when t is a whole number of seconds.
C5_AcctDelayTruncated ==
    \A k \in 1..Len(sent) :
        /\ C5_Unchanged(k)
        /\ (k >= 2 /\ pkt0.code = ACCOUNTING_REQUEST)
              => /\ Carried(sent[k]) = Truncated(k)
                 /\ timeout % 2 = 0 => Carried(sent[k]) = D0 + (k - 1) * (timeout \div 2)

\* C5 witness: an Accounting-Request that had an Acct-Delay-Time was
\* transmitted three times with a fractional timeout.
C5_ThirdTransmission ==
    /\ Len(sent) = 3 /\ pkt0.code = ACCOUNTING_REQUEST
    /\ HasKey(pkt0.attrs, Key(41)) /\ timeout % 2 = 1

\* The port of the client for the kind of request a datagram is, by its
\* code octet
PortOfCode(h, code) ==
    CASE code = ACCESS_REQUEST -> h.authport
      [] code = ACCOUNTING_REQUEST -> h.acctport
      [] code \in {COA_REQUEST, DISCONNECT_REQUEST} -> h.coaport
      [] OTHER -> -1

\* C20: every datagram send_packet transmits goes to the port of its
\* packet's kind: an Access-Request to authport, an Accounting-Request to
\* acctport, a CoA-Request or Disconnect-Request to coaport, which are
\* 1812, 1813 and 3799 in a client made with the defaults.
C20_PortByKind ==
    /\ Len(sentto) = Len(sent)
    /\ \A k \in 1..Len(sent) :
          /\ sentto[k] = PortOfCode(host, sent[k][1])
          /\ sentto[k] = (CASE pkt0.kind = "auth" -> 1812
                            [] pkt0.kind = "acct" -> 1813
                            [] pkt0.kind = "coa" -> 3799)

\* C20 witness: a Disconnect-Request was retransmitted to the CoA port.
C20_DisconnectRetransmitted ==
    /\ Len(sentto) >= 2 /\ pkt0.code = DISCONNECT_REQUEST
    /\ sentto[2] = host.coaport

(***************************************************************************)
(* The packet codec: a request is constructed, filled, serialized with     *)
(* create_raw_request, decoded and verified by the receiver, answered with *)
(* create_reply / create_raw_reply, and the answer verified; or a datagram *)
(* is received, decoded, and its attributes encoded again.                 *)
(***************************************************************************)

\* attribute operations on one request
MaxOps == 2

\* keys set on one reply
MaxReplyKeys == 2

\* An authenticator the caller passes to the constructor
SuppliedAuthenticator == [i \in 1..16 |-> i]

\* 32768 + random_generator.randrange(0, 32767)
Salts == {32768, 40000}

\* The requests as their constructors return them:
\* AuthPacket(authenticator=..., message_authenticator=...), AcctPacket(...),
\* CoAPacket(code=..., ...)
CodecPackets ==
    { NewPacket("auth", ACCESS_REQUEST, 7, Secret, a, m, "pap") :
          a \in {None, SuppliedAuthenticator}, m \in BOOLEAN }
    \cup { NewPacket("acct", ACCOUNTING_REQUEST, 7, Secret, None, m, "pap") : m \in BOOLEAN }
    \cup { NewPacket("coa", c, 7, Secret, None, m, "pap") :
               c \in {COA_REQUEST, DISCONNECT_REQUEST}, m \in BOOLEAN }

\* One type-26 attribute holding two sub-attributes of vendor 9, and the
\* same two sub-attributes in a type-26 attribute each
TwoSubVsa == <<26, 12, 0, 0, 0, 9, 1, 3, 5, 2, 3, 6>>
TwoVsas == <<26, 9, 0, 0, 0, 9, 1, 3, 5, 26, 9, 0, 0, 0, 9, 2, 3, 6>>

\* pkt[key] = values with an attribute code or a (vendor, code) tuple as key
RawItems ==
    { [key |-> Key(1),  vals |-> << <<97>> >>],
      [key |-> Key(18), vals |-> << <<111>>, <<107>> >>],
      [key |-> <<9, 1>>, vals |-> << <<5>> >>],
      [key |-> Key(26), vals |-> << From(TwoSubVsa, 2) >>] }

\* pkt[name] = value with an attribute name, the value as the caller gives it
NamedItems ==
    { [name |-> "User-Name",       value |-> <<97>>],
      [name |-> "Reply-Message",   value |-> <<111>>],
      [name |-> "Tunnel-Password", value |-> <<120>>] }

\* Well-formed datagrams a peer may send
WireDatagrams ==
    { <<ACCESS_ACCEPT, 7>> \o PackH(20 + Len(a)) \o Zeros(16) \o a :
          a \in {OneAttr, Interleaved, Regrouped, TwoSubVsa, TwoVsas} }

\* The datagram a peer sends with the given code, Length field and attribute
\* octets
PeerDatagram(code, length, a) == <<code, 7>> \o PackH(length) \o Zeros(16) \o a

\* One attribute of type 18 and n octets in all
Filler(n) == <<18, n>> \o [i \in 1..(n - 2) |-> 97]

\* 4077 attribute octets: a datagram of 4097 octets
RECURSIVE Fillers(_)
Fillers(k) == IF k = 0 THEN Filler(252) ELSE Filler(255) \o Fillers(k - 1)

\* A type-26 attribute whose second sub-attribute declares length 0
HangingVsa == <<26, 8, 0, 0, 0, 9, 1, 0>>

\* Datagrams of the kinds decode_packet is to reject: a cut header, a
\* Length field one more and one less than the datagram, 4097 octets, an
\* attribute with length octet 0 or 1 (first, or after other attributes)
MalformedDatagrams ==
    { Slice(PeerDatagram(ACCESS_ACCEPT, 20, << >>), 0, 12),
      Slice(PeerDatagram(ACCESS_ACCEPT, 20, << >>), 0, 19),
      PeerDatagram(ACCESS_ACCEPT, 24, OneAttr),
      PeerDatagram(ACCESS_ACCEPT, 20 + Len(OneAttr) - 1, OneAttr),
      PeerDatagram(ACCESS_ACCEPT, 4097, Fillers(15)) }
    \cup { PeerDatagram(ACCESS_ACCEPT, 20 + Len(a), a) :
               a \in { <<18, 1>>, <<18, 0>>, <<18, 0, 111>>,
                       OneAttr \o <<1, 1>>, OneAttr \o <<1, 0, 0>>,
                       <<26, 5, 97, 98, 99>> \o <<1, 1>>,
                       TwoSubVsa \o <<1, 0>>,
                       HangingVsa \o <<1, 1>> } }

\* Datagrams with type-26 attributes of fewer than 6 value octets and with
\* attributes of types the dictionary does not have
OpaqueDatagrams ==
    { PeerDatagram(c, 20 + Len(a), a) :
          c \in {ACCESS_ACCEPT, ACCOUNTING_REQUEST},
          a \in { <<26, 5, 97, 98, 99>>,
                  <<26, 2>>,
                  <<26, 7, 0, 0, 0, 9, 1>>,
                  <<26, 5, 97, 98, 99, 26, 2>>,
                  <<26, 5, 97, 98, 99>> \o TwoSubVsa \o <<26, 3, 100>>,
                  <<26, 9, 0, 0, 0, 9, 1, 2, 5>> \o <<26, 4, 5, 6>>,
                  <<200, 3, 122>>,
                  <<200, 3, 122, 1, 3, 97, 200, 2, 201, 4, 0, 1>>,
                  <<200, 3, 122, 26, 3, 97, 18, 3, 111>> } }

\* Whether create_authenticator() is called by add_message_authenticator /
\* AuthPacket.create_raw_request on packet p
DrawsInAdd(p) == p.authenticator = None /\ p.code = ACCESS_REQUEST
DrawsInRequest(p) == p.kind = "auth" /\ p.authenticator = None

\* pkt[name] = value (Packet.__setitem__, a string key)
SetNamed ==
    /\ cpc = "build"
    /\ nops < MaxOps
    /\ \E it \in NamedItems : \E salt \in Salts :
          LET r == SetItemName(request, it.name, 0, it.value, salt)
          IN  /\ r.st = "ok"
              /\ request' = r.p
    /\ nops' = nops + 1
    /\ UNCHANGED <<cpc, request0, drawn, wire, dec, rep, rawrep, verdict, reenc, err>>
    /\ UNCHANGED nonCodec

\* pkt[key] = values (Packet.__setitem__, a key that is no string)
SetRaw ==
    /\ cpc = "build"
    /\ nops < MaxOps
    /\ \E it \in RawItems :
          request' = [request EXCEPT !.attrs = SetItem(request.attrs, it.key, it.vals)]
    /\ nops' = nops + 1
    /\ UNCHANGED <<cpc, request0, drawn, wire, dec, rep, rawrep, verdict, reenc, err>>
    /\ UNCHANGED nonCodec

\* pkt.add_message_authenticator()
AddMessageAuth ==
    /\ cpc = "build"
    /\ nops < MaxOps
    /\ \E rnd \in RandomAuthenticators :
          LET r == AddMessageAuthenticator(request, rnd)
          IN  /\ request' = r.p
              /\ drawn' = IF DrawsInAdd(request) THEN Append(drawn, rnd) ELSE drawn
              /\ IF r.st = "ok"
                 THEN UNCHANGED <<cpc, err>>
                 ELSE cpc' = "error" /\ err' = r.st
    /\ nops' = nops + 1
    /\ UNCHANGED <<request0, wire, dec, rep, rawrep, verdict, reenc>>
    /\ UNCHANGED nonCodec

\* raw = pkt.create_raw_request()
Serialize ==
    /\ cpc = "build"
    /\ \E rnd \in RandomAuthenticators :
          LET r == CreateRawRequest(request, rnd)
          IN  /\ request' = r.p
              /\ drawn' = IF DrawsInRequest(request) THEN Append(drawn, rnd) ELSE drawn
              /\ IF r.st = "ok"
                 THEN wire' = r.raw /\ cpc' = "sent" /\ UNCHANGED err
                 ELSE cpc' = "error" /\ err' = r.st /\ UNCHANGED wire
    /\ UNCHANGED <<request0, nops, dec, rep, rawrep, verdict, reenc>>
    /\ UNCHANGED nonCodec

\* The receiver: Packet(secret=..., packet=raw) of the request's class, then
\* verify_acct_request() / verify_coa_request() for those classes
Decode ==
    /\ cpc = "sent"
    /\ \E secret \in {Secret, OtherSecret} :
          LET d == DecodePacket(wire)
          IN  /\ dec' = d
              /\ IF d.st # "ok"
                 THEN cpc' = "error" /\ err' = d.st /\ UNCHANGED verdict
                 ELSE /\ cpc' = "decoded"
                      /\ UNCHANGED err
                      /\ verdict' = IF request.kind = "auth" THEN NoVerdict
                                    ELSE [secret |-> secret,
                                          ok |-> VerifyRequest(wire, secret, d.authenticator)]
    /\ UNCHANGED <<request, request0, nops, drawn, wire, rep, rawrep, reenc>>
    /\ UNCHANGED nonCodec

\* Packet(packet=raw) of a datagram from a peer
Receive ==
    /\ cpc = "build"
    /\ nops = 0
    /\ \E w \in WireDatagrams \cup MalformedDatagrams \cup OpaqueDatagrams :
          /\ wire' = w
          /\ dec' = DecodePacket(w)
    /\ cpc' = "received"
    /\ UNCHANGED <<request, request0, nops, drawn, rep, rawrep, verdict, reenc, err>>
    /\ UNCHANGED nonCodec

\* _pkt_encode_attributes() of the decoded packet
Reencode ==
    /\ cpc \in {"decoded", "received"}
    /\ dec.st = "ok"
    /\ reenc' = PktEncodeAttributes(dec.attrs)
    /\ cpc' = "reencoded"
    /\ UNCHANGED <<request, request0, nops, drawn, wire, dec, rep, rawrep, verdict, err>>
    /\ UNCHANGED nonCodec

\* reply = pkt.create_reply(), of a request that was sent or of one that
\* was only constructed
Reply ==
    /\ cpc = "sent" \/ (cpc = "build" /\ nops = 0)
    /\ rep' = CreateReply(request, << >>)
    /\ cpc' = "reply"
    /\ UNCHANGED <<request, request0, nops, drawn, wire, dec, rawrep, verdict, reenc, err>>
    /\ UNCHANGED nonCodec

\* reply[key] = values
ReplySetRaw ==
    /\ cpc = "reply"
    /\ Len(rep.attrs) < MaxReplyKeys
    /\ \E it \in RawItems :
          /\ ~HasKey(rep.attrs, it.key)
          /\ rep' = [rep EXCEPT !.attrs = SetItem(rep.attrs, it.key, it.vals)]
    /\ UNCHANGED <<cpc, request, request0, nops, drawn, wire, dec, rawrep, verdict, reenc, err>>
    /\ UNCHANGED nonCodec

\* rawreply = reply.create_raw_reply()
SerializeReply ==
    /\ cpc = "reply"
    /\ LET r == CreateRawReply(rep)
       IN  /\ rep' = r.p
           /\ IF r.st = "ok"
              THEN rawrep' = r.raw /\ cpc' = "rawreply" /\ UNCHANGED err
              ELSE cpc' = "error" /\ err' = r.st /\ UNCHANGED rawrep
    /\ UNCHANGED <<request, request0, nops, drawn, wire, dec, verdict, reenc>>
    /\ UNCHANGED nonCodec

\* pkt.verify_reply(pkt.create_reply(packet=rawreply), rawreply)
VerifyReplyStep ==
    /\ cpc = "rawreply"
    /\ LET r == CreateReplyFromRaw(request, rawrep)
       IN  IF r.st # "ok"
           THEN cpc' = "error" /\ err' = r.st /\ UNCHANGED verdict
           ELSE /\ verdict' = [secret |-> request.secret, ok |-> VerifyReply(request, r.p, rawrep)]
                /\ cpc' = "verified"
                /\ UNCHANGED err
    /\ UNCHANGED <<request, request0, nops, drawn, wire, dec, rep, rawrep, reenc>>
    /\ UNCHANGED nonCodec

InitCodec ==
    /\ request \in CodecPackets
    /\ request0 = request
    /\ cpc = "build"
    /\ rep = NoPacket
    /\ nops = 0 /\ drawn = << >>
    /\ wire = << >> /\ rawrep = << >> /\ reenc = << >>
    /\ dec = DecodePacket(<< >>)
    /\ verdict = NoVerdict
    /\ err = "none"
    /\ ClientIdle
    /\ AuthIdle
    /\ MaIdle
    /\ ConstructIdle
    /\ RestIdle

NextCodec ==
    \/ SetNamed
    \/ SetRaw
    \/ AddMessageAuth
    \/ Serialize
    \/ Decode
    \/ Receive
    \/ Reencode
    \/ Reply
    \/ ReplySetRaw
    \/ SerializeReply
    \/ VerifyReplyStep

SpecCodec == InitCodec /\ [][NextCodec]_vars

(***************************************************************************)
(* Properties of the codec (checked under SpecCodec)                       *)
(***************************************************************************)

\* The values stored under every key of both maps are the same lists
SameValues(a, b) ==
    /\ \A i \in 1..Len(a) : HasKey(b, a[i].key) /\ GetItem(b, a[i].key) = a[i].vals
    /\ \A i \in 1..Len(b) : HasKey(a, b[i].key)

\* C6: a reply made with create_reply and serialized with create_raw_reply
\* has the authenticator MD5(code || id || length || request authenticator
\* || attributes || secret), and verify_reply of the request accepts it;
\* no reply is serialized while the authenticator is unset.
C6_ReplyVerifies ==
    /\ cpc \in {"rawreply", "verified"}
          => /\ rep.authenticator # None
             /\ Slice(rawrep, 0, 2) = <<rep.code, rep.id>>
             /\ UnpackH(Slice(rawrep, 2, 4)) = Len(rawrep)
             /\ From(rawrep, 20) = PktEncodeAttributes(rep.attrs)
             /\ Slice(rawrep, 4, 20)
                  = MD5(Slice(rawrep, 0, 4) \o request.authenticator
                          \o From(rawrep, 20) \o request.secret)
    /\ cpc = "verified" => verdict.ok

\* C7: the datagram of an Accounting-, CoA- or Disconnect-Request carries
\* MD5(code || id || length || 16 zero octets || attributes || secret) over
\* the attribute octets it carries; the receiver decodes it, and its
\* verify_acct_request / verify_coa_request is True with the sender's secret
\* and False with another.
C7_RequestAuthenticator ==
    (request.kind \in {"acct", "coa"} /\ wire # << >> /\ cpc # "received")
       => /\ Slice(wire, 4, 20)
               = MD5(Slice(wire, 0, 4) \o Zeros(16) \o From(wire, 20) \o request.secret)
          /\ DecodePacket(wire).st = "ok"
          /\ cpc = "decoded" => (verdict.ok <=> verdict.secret = request.secret)

\* C8: an Access-Request constructed without an authenticator is serialized
\* with a value create_authenticator() returned for it.
C8_FreshAuthenticator ==
    (request.kind = "auth" /\ request0.authenticator = None
        /\ wire # << >> /\ cpc # "received")
       => \E i \in 1..Len(drawn) : Slice(wire, 4, 20) = drawn[i]

\* C9: the packet decoded from a serialized packet has that packet's code,
\* id, authenticator, and under every key the same list of raw values.
C9_RoundTrip ==
    (wire # << >> /\ cpc \in {"sent", "decoded", "error"} /\ err \in {"none", "PacketError"})
       => LET d == DecodePacket(wire)
          IN  /\ d.st = "ok"
              /\ d.code = request.code
              /\ d.id = request.id
              /\ d.authenticator = request.authenticator
              /\ SameValues(d.attrs, request.attrs)

\* C10: encoding again the attributes decoded from a well-formed datagram
\* gives the attribute octets of the datagram, in their order.
C10_OrderPreserved ==
    (cpc = "reencoded" /\ dec.st = "ok") => reenc = From(wire, 20)

(***************************************************************************)
(* The password methods of an AuthPacket: a User-Password is obfuscated    *)
(* with pw_crypt and recovered with pw_decrypt; an Access-Request with a   *)
(* CHAP-Password is checked with verify_chap_passwd.                       *)
(***************************************************************************)

\* The AuthPackets the methods are called on
AuthPackets ==
    { NewPacket("auth", ACCESS_REQUEST, 7, sec, a, FALSE, "pap") :
          sec \in {Secret, OtherSecret}, a \in {None, SuppliedAuthenticator} }

\* n letters, from the k-th letter of the alphabet on
Letters(n, k) == [i \in 1..n |-> 97 + ((i + k) % 26)]

\* Passwords given to pw_crypt, as UTF-8 octets: none ends in U+0000
Passwords ==
    { << >>, <<97>>, <<195, 169>>, Letters(15, 0), Letters(16, 0), Letters(17, 0),
      Letters(26, 0), Letters(32, 3), Letters(33, 5), Letters(15, 0) \o <<195, 169>>,
      Letters(127, 0) }

\* The CHAP identifiers a peer uses
ChapIds == {0, 5, 127, 128, 255}

\* The passwords of a CHAP peer and those given to verify_chap_passwd
ChapPasswords == { <<115, 101, 99>>, <<32, 115, 101, 99>>, <<120>> }

\* The value of a CHAP-Challenge attribute
ChapChallenge == <<99, 104, 97, 108>>

\* The CHAP-Password a peer sends: Id || MD5(Id || password || challenge),
\* whole, one octet short, or one octet long
ChapForms == {"whole", "short", "long"}

ChapPassword(id, pwd, challenge, form) ==
    LET whole == <<id>> \o MD5(<<id>> \o pwd \o challenge)
    IN  CASE form = "whole" -> whole
          [] form = "short" -> Slice(whole, 0, 16)
          [] form = "long"  -> whole \o <<0>>

\* crypted = pkt.pw_crypt(password)
PwCrypt ==
    /\ apc = "new"
    /\ \E pw \in Passwords : \E rnd \in RandomAuthenticators :
          LET r == pw_crypt(apkt, pw, rnd)
          IN  /\ apkt' = r.p
              /\ password' = pw
              /\ crypted' = r.val
    /\ apc' = "crypted"
    /\ UNCHANGED <<decrypted, chap>>
    /\ UNCHANGED nonAuth

\* pkt.pw_decrypt(crypted)
PwDecrypt ==
    /\ apc = "crypted"
    /\ decrypted' = pw_decrypt(apkt, crypted)
    /\ apc' = "decrypted"
    /\ UNCHANGED <<apkt, password, crypted, chap>>
    /\ UNCHANGED nonAuth

\* The packet is an Access-Request received from a CHAP peer: it has an
\* authenticator and a CHAP-Password, and may have a CHAP-Challenge
ChapRequest ==
    /\ apc = "new"
    /\ apkt.authenticator # None
    /\ \E id \in ChapIds : \E pwd \in ChapPasswords : \E form \in ChapForms :
       \E withChallenge \in BOOLEAN :
          LET c == IF withChallenge THEN ChapChallenge ELSE apkt.authenticator
              a == << [key |-> Key(3), vals |-> << ChapPassword(id, pwd, c, form) >>] >>
          IN  /\ apkt' = [apkt EXCEPT !.attrs =
                              IF withChallenge
                              THEN Append(a, [key |-> Key(60), vals |-> << ChapChallenge >>])
                              ELSE a]
              /\ chap' = [NoChap EXCEPT !.id = id, !.secret = pwd, !.challenge = c]
    /\ apc' = "chap"
    /\ UNCHANGED <<password, crypted, decrypted>>
    /\ UNCHANGED nonAuth

\* pkt.verify_chap_passwd(userpwd)
VerifyChap ==
    /\ apc = "chap"
    /\ \E userpwd \in ChapPasswords : \E isstr \in BOOLEAN : \E rnd \in RandomAuthenticators :
          LET r == verify_chap_passwd(apkt, userpwd, isstr, rnd)
          IN  /\ apkt' = r.p
              /\ chap' = [chap EXCEPT !.userpwd = userpwd, !.isstr = isstr,
                                      !.result = IF r.st # "ok" THEN r.st
                                                 ELSE IF r.val THEN "True" ELSE "False"]
    /\ apc' = "checked"
    /\ UNCHANGED <<password, crypted, decrypted>>
    /\ UNCHANGED nonAuth

InitAuth ==
    /\ apc = "new"
    /\ apkt \in AuthPackets
    /\ password = << >> /\ crypted = << >>
    /\ decrypted = NoResult
    /\ chap = NoChap
    /\ ClientIdle
    /\ CodecIdle
    /\ MaIdle
    /\ ConstructIdle
    /\ RestIdle

NextAuth ==
    \/ PwCrypt
    \/ PwDecrypt
    \/ ChapRequest
    \/ VerifyChap

SpecAuth == InitAuth /\ [][NextAuth]_vars

(***************************************************************************)
(* Properties of the password methods (checked under SpecAuth)             *)
(***************************************************************************)

\* C11: pw_decrypt(pw_crypt(p)) = p for every password p of fewer than 128
\* octets, with the same secret and authenticator, also for a password
\* longer than 16 octets.
C11_PwInvolution ==
    apc = "decrypted" => decrypted = [st |-> "ok", val |-> password]

\* The password padded with zero octets to a multiple of 16
Padded(pw) == IF Len(pw) % 16 # 0 THEN pw \o Zeros(16 - (Len(pw) % 16)) ELSE pw

\* The i-th 16-octet block of s, i from 0
Block(s, i) == Slice(s, 16 * i, 16 * i + 16)

\* C12: the ciphertext is as long as the padded password; its block 0 is
\* b0 XOR MD5(secret || RequestAuthenticator), and every block i >= 1 is
\* bi XOR MD5(secret || ciphertext block i-1).
C12_ChainedByCiphertext ==
    apc \in {"crypted", "decrypted"}
       => LET b == Padded(password)
          IN  /\ Len(crypted) = Len(b)
              /\ \A i \in 0..((Len(b) \div 16) - 1) :
                    Block(crypted, i)
                      = XorZip(Block(b, i),
                               MD5(apkt.secret \o (IF i = 0 THEN apkt.authenticator
                                                    ELSE Block(crypted, i - 1))))

\* C15: verify_chap_passwd(P) is True exactly when the CHAP-Password is 17
\* octets Id || Response with Response = MD5(Id || P || C), Id the one
\* identifier octet, C the CHAP-Challenge value if the packet has one and
\* the Request Authenticator otherwise.
C15_ChapVerify ==
    apc = "checked"
       => LET cp == GetItem(apkt.attrs, Key(3))[1]
              c  == IF HasKey(apkt.attrs, Key(60)) THEN GetItem(apkt.attrs, Key(60))[1]
                    ELSE apkt.authenticator
          IN  (chap.result = "True")
                 <=> (Len(cp) = 17 /\ From(cp, 1) = MD5(<<cp[1]>> \o chap.userpwd \o c))

(***************************************************************************)
(* Properties of decoding malformed and opaque attributes (checked under   *)
(* SpecCodec)                                                              *)
(***************************************************************************)

\* The attributes of a datagram as its Type and Length octets delimit them,
\* up to the first whose length octet is less than 2
RECURSIVE WireAttributes(_)
WireAttributes(packet) ==
    IF Len(packet) < 2 \/ packet[2] < 2 THEN << >>
    ELSE << [type |-> packet[1], value |-> Slice(packet, 2, packet[2])] >>
         \o WireAttributes(From(packet, packet[2]))

\* Some attribute of the datagram has a length octet less than 2
RECURSIVE HasShortLength(_)
HasShortLength(packet) ==
    IF Len(packet) < 2 THEN FALSE
    ELSE IF packet[2] < 2 THEN TRUE
    ELSE HasShortLength(From(packet, packet[2]))

\* Every attribute of the datagram has its two header octets and a length
\* octet of at least 2
RECURSIVE Delimited(_)
Delimited(packet) ==
    IF packet = << >> THEN TRUE
    ELSE IF Len(packet) < 2 \/ packet[2] < 2 THEN FALSE
    ELSE Delimited(From(packet, packet[2]))

\* The values of the attributes of type t, in datagram order
ValuesOfType(as, t) ==
    LET sel == SelectSeq(as, LAMBDA a : a.type = t)
    IN  [i \in 1..Len(sel) |-> sel[i].value]

\* What the decoded packet holds under key k
HeldUnder(attrs, k) == IF HasKey(attrs, k) THEN GetItem(attrs, k) ELSE << >>

\* C18: a datagram shorter than 20 octets, or whose Length field differs
\* from its length, or of more than 4096 octets, or with an attribute whose
\* length octet is less than 2, is rejected with PacketError.
C18_MalformedRejected ==
    (cpc = "received"
     /\ \/ Len(wire) < 20
        \/ UnpackH(Slice(wire, 2, 4)) # Len(wire)
        \/ UnpackH(Slice(wire, 2, 4)) > 4096
        \/ HasShortLength(From(wire, 20)))
    => dec.st = "PacketError"

\* C19: a type-26 attribute with fewer than 6 value octets is decoded, without
\* raising, to the one pair (26, value), and the decoded packet holds these
\* values under key 26 in datagram order; the values of a type the
\* dictionary does not have are held under its code, in datagram order.
C19_OpaqueRetained ==
    (cpc = "received" /\ Len(wire) >= 20 /\ Len(wire) <= 4096
     /\ UnpackH(Slice(wire, 2, 4)) = Len(wire) /\ Delimited(From(wire, 20)))
    => LET as    == WireAttributes(From(wire, 20))
           short == SelectSeq(ValuesOfType(as, 26), LAMBDA v : Len(v) < 6)
       IN  /\ \A i \in 1..Len(short) :
                 PktDecodeVendorAttribute(short[i])
                     = [st |-> "ok", items |-> << [key |-> Key(26), value |-> short[i]] >>]
           /\ (\A i \in 1..Len(as) : as[i].type = 26 => Len(as[i].value) < 6)
                 => dec.st = "ok"
           /\ dec.st = "ok" =>
                 /\ SelectSeq(HeldUnder(dec.attrs, Key(26)), LAMBDA v : Len(v) < 6) = short
                 /\ \A i \in 1..Len(as) :
                       (as[i].type # 26 /\ \A a \in Dictionary : a.key # Key(as[i].type))
                       => HeldUnder(dec.attrs, Key(as[i].type)) = ValuesOfType(as, as[i].type)

\* C19 witness: a datagram with a short type-26 attribute, a well-formed
\* one and another short one was decoded, and so was one with two
\* attributes of type 200.
C19_ShortVsaDecoded ==
    /\ cpc = "received"
    /\ dec.st = "ok"
    /\ \/ /\ HeldUnder(dec.attrs, Key(26)) = << <<97, 98, 99>>, <<100>> >>
          /\ HasKey(dec.attrs, <<9, 1>>)
       \/ HeldUnder(dec.attrs, Key(200)) = << <<122>>, << >> >>

(***************************************************************************)
(* A packet carrying Message-Authenticator: a request is constructed and   *)
(* serialized with create_raw_request, a reply is made with create_reply   *)
(* from a received request, given its code, and serialized with            *)
(* create_raw_reply; the packet is serialized again and checked with       *)
(* verify_message_authenticator.                                           *)
(***************************************************************************)

\* attribute operations on the packet
MaxMaOps == 1

\* serializations of the packet
MaxSerializations == 2

RequestCodes == {ACCESS_REQUEST, STATUS_SERVER, ACCOUNTING_REQUEST, COA_REQUEST, DISCONNECT_REQUEST}

\* The codes a reply of each class is given (reply.code = ...)
ReplyCodes(kind) ==
    CASE kind = "auth" -> {ACCESS_ACCEPT, ACCESS_REJECT, ACCESS_CHALLENGE}
      [] kind = "acct" -> {ACCOUNTING_RESPONSE}
      [] kind = "coa"  -> {COA_ACK, COA_NAK, DISCONNECT_ACK, DISCONNECT_NAK}

\* The request a reply is made from: it was received, so it has the
\* authenticator of its datagram
ReceivedRequest(kind) ==
    NewPacket(kind,
              CASE kind = "auth" -> ACCESS_REQUEST
                [] kind = "acct" -> ACCOUNTING_REQUEST
                [] kind = "coa"  -> COA_REQUEST,
              7, Secret, SuppliedAuthenticator, FALSE, "pap")

\* The packets: requests as constructed by the sender, with
\* message_authenticator=True or without; replies made by create_reply and
\* given their code
MaPackets ==
    { NewPacket("auth", c, 7, Secret, a, m, "pap") :
          c \in {ACCESS_REQUEST, STATUS_SERVER}, a \in {None, SuppliedAuthenticator},
          m \in BOOLEAN }
    \cup { NewPacket("acct", ACCOUNTING_REQUEST, 7, Secret, None, m, "pap") : m \in BOOLEAN }
    \cup { NewPacket("coa", c, 7, Secret, None, m, "pap") :
               c \in {COA_REQUEST, DISCONNECT_REQUEST}, m \in BOOLEAN }
    \cup UNION { { [CreateReply(ReceivedRequest(k), << >>) EXCEPT !.code = c] :
                      c \in ReplyCodes(k) } : k \in {"auth", "acct", "coa"} }

\* pkt[key] = values
MaSetRaw ==
    /\ mpc = "build"
    /\ mnops < MaxMaOps
    /\ \E it \in { i \in RawItems : i.key[1] = NoVendor /\ i.key[2] # 26 } :
          mp' = [mp EXCEPT !.attrs = SetItem(mp.attrs, it.key, it.vals)]
    /\ mnops' = mnops + 1
    /\ UNCHANGED <<mpc, mraw, mac, mverify>>
    /\ UNCHANGED nonMa

\* pkt.add_message_authenticator()
MaAdd ==
    /\ mpc = "build"
    /\ ~mp.message_authenticator
    /\ \E rnd \in RandomAuthenticators :
          LET r == AddMessageAuthenticator(mp, rnd)
          IN  /\ mp' = r.p
              /\ mpc' = IF r.st = "ok" THEN "build" ELSE "error"
    /\ UNCHANGED <<mnops, mraw, mac, mverify>>
    /\ UNCHANGED nonMa

\* pkt.create_raw_request() of a request, pkt.create_raw_reply() of a reply
MaSerialize ==
    /\ mpc \in {"build", "serialized"}
    /\ mp.message_authenticator
    /\ Len(mraw) < MaxSerializations
    /\ \E rnd \in RandomAuthenticators :
          LET r == IF mp.code \in RequestCodes THEN CreateRawRequest(mp, rnd)
                   ELSE CreateRawReply(mp)
          IN  /\ mp' = r.p
              /\ IF r.st = "ok"
                 THEN /\ mraw' = Append(mraw, r.raw)
                      /\ mac' = Append(mac, GetItem(r.p.attrs, Key(80))[1])
                      /\ mpc' = "serialized"
                 ELSE /\ mpc' = "error"
                      /\ UNCHANGED <<mraw, mac>>
    /\ UNCHANGED <<mnops, mverify>>
    /\ UNCHANGED nonMa

\* pkt.verify_message_authenticator()
MaVerify ==
    /\ mpc = "serialized"
    /\ LET r == VerifyMessageAuthenticator(mp, None, None, None)
       IN  /\ mp' = r.p
           /\ mverify' = IF r.st # "ok" THEN r.st ELSE IF r.val THEN "True" ELSE "False"
    /\ mpc' = "verified"
    /\ UNCHANGED <<mnops, mraw, mac>>
    /\ UNCHANGED nonMa

InitMa ==
    /\ mpc = "build"
    /\ mp \in MaPackets
    /\ mnops = 0
    /\ mraw = << >> /\ mac = << >>
    /\ mverify = "none"
    /\ ClientIdle
    /\ CodecIdle
    /\ AuthIdle
    /\ ConstructIdle
    /\ RestIdle

NextMa ==
    \/ MaSetRaw
    \/ MaAdd
    \/ MaSerialize
    \/ MaVerify

SpecMa == InitMa /\ [][NextMa]_vars

(***************************************************************************)
(* Properties of Message-Authenticator (checked under SpecMa)              *)
(***************************************************************************)

\* The attribute octets of the packet with the value of attribute 80 zeroed
ZeroedAttributes == PktEncodeAttributes(SetItem(mp.attrs, Key(80), << Zeros(16) >>))

\* The HMAC-MD5 over code || id || length || input || attributes with the
\* value of attribute 80 zeroed
ExpectedMac(input) ==
    HMAC(mp.secret, EncodeHeader(mp.code, mp.id, ZeroedAttributes) \o input \o ZeroedAttributes)

\* The k-th datagram carries the attributes of the packet, attribute 80
\* with the value mac[k], which is the HMAC with the given input
CarriesMac(k, input) ==
    /\ From(mraw[k], 20) = PktEncodeAttributes(SetItem(mp.attrs, Key(80), << mac[k] >>))
    /\ mac[k] = ExpectedMac(input)

\* C13 (as stated): the input is 16 zero octets for Accounting-Request and
\* -Response, CoA-Request, -ACK and -NAK, Disconnect-Request, -ACK and -NAK;
\* the Request Authenticator for Access-Accept, -Reject and -Challenge; the
\* packet's own authenticator for Access-Request and Status-Server.
C13_MacInputAsStated ==
    \A k \in 1..Len(mac) :
        CarriesMac(k,
            IF mp.code \in {ACCOUNTING_REQUEST, ACCOUNTING_RESPONSE, COA_REQUEST, COA_ACK, COA_NAK,
                            DISCONNECT_REQUEST, DISCONNECT_ACK, DISCONNECT_NAK}
            THEN Zeros(16)
            ELSE IF mp.code \in {ACCESS_ACCEPT, ACCESS_REJECT, ACCESS_CHALLENGE}
            THEN ReceivedRequest(mp.kind).authenticator
            ELSE Slice(mraw[k], 4, 20))

\* C13 (amended): the input is 16 zero octets for Accounting-Request and
\* -Response, CoA-Request and Disconnect-Request; the Request Authenticator
\* of the request answered for Access-Accept, -Reject and -Challenge and
\* for CoA-ACK, CoA-NAK, Disconnect-ACK and Disconnect-NAK; the packet's own
\* authenticator for Access-Request and Status-Server.
C13_MacInput ==
    \A k \in 1..Len(mac) :
        CarriesMac(k,
            IF mp.code \in {ACCOUNTING_REQUEST, ACCOUNTING_RESPONSE, COA_REQUEST, DISCONNECT_REQUEST}
            THEN Zeros(16)
            ELSE IF mp.code \in {ACCESS_ACCEPT, ACCESS_REJECT, ACCESS_CHALLENGE,
                                 COA_ACK, COA_NAK, DISCONNECT_ACK, DISCONNECT_NAK}
            THEN ReceivedRequest(mp.kind).authenticator
            ELSE Slice(mraw[k], 4, 20))

\* C13 witness: a CoA-NAK with an attribute and Message-Authenticator was
\* serialized twice.
C13_CoaNakSerialized ==
    mp.code = COA_NAK /\ Len(mac) = 2 /\ HasKey(mp.attrs, Key(18))

\* C14: a packet with Message-Authenticator serialized twice carries the
\* same 16-octet HMAC both times, and verify_message_authenticator() of the
\* serialized packet returns True.
C14_MacStable ==
    /\ \A k \in 1..Len(mac) : Len(mac[k]) = 16 /\ mac[k] = mac[1]
    /\ mpc = "verified" => mverify = "True"

(***************************************************************************)
(* Construction of packets: the module-level counter current_id, the       *)
(* constructors with and without id=, and create_reply with attributes     *)
(* given by keyword.                                                       *)
(***************************************************************************)

\* create_id() calls made in a run
MaxDraws == 257

\* Replies are derived from the packets constructed up to this many draws
MaxRepliedDraws == 2

\* current_id = random_generator.randrange(1, 255) at import: 1..254
InitialIds == {1, 254}

\* id= values given to a constructor
ExplicitIds == {0, 9}

PacketKinds == {"packet", "auth", "acct", "coa"}

\* The code= default of each class
DefaultCode(kind) ==
    CASE kind = "packet" -> 0
      [] kind = "auth"   -> ACCESS_REQUEST
      [] kind = "acct"   -> ACCOUNTING_REQUEST
      [] kind = "coa"    -> COA_REQUEST

\* The keyword arguments given to create_reply
ReplyKwargs ==
    { << >>,
      << [kw |-> "Reply_Message", value |-> <<97>>] >>,
      << [kw |-> "Tunnel_Password", value |-> <<120>>] >>,
      << [kw |-> "User_Name", value |-> <<98>>], [kw |-> "Tunnel_Password", value |-> <<120>>] >> }

\* Packet(...), AuthPacket(...), AcctPacket(...), CoAPacket(...) without id=
Construct ==
    /\ Len(issued) < MaxDraws
    /\ \E k \in PacketKinds, a \in {None, SuppliedAuthenticator} :
          LET id == create_id(current_id)
          IN  /\ current_id' = id
              /\ built' = NewPacket(k, DefaultCode(k), id, Secret, a, FALSE, "pap")
              /\ issued' = Append(issued, id)
              /\ created' = [op |-> "implicit", prev |-> current_id, ret |-> id]
    /\ built0' = NoPacket /\ derived' = NoPacket /\ passed' = << >>
    /\ UNCHANGED nonConstruct

\* The constructors with id=
ConstructWithId ==
    /\ \E k \in PacketKinds, a \in {None, SuppliedAuthenticator}, id \in ExplicitIds :
          /\ built' = NewPacket(k, DefaultCode(k), id, Secret, a, FALSE, "pap")
          /\ created' = [op |-> "explicit", prev |-> current_id, ret |-> id]
    /\ built0' = NoPacket /\ derived' = NoPacket /\ passed' = << >>
    /\ UNCHANGED <<current_id, issued>>
    /\ UNCHANGED nonConstruct

\* reply = pkt.create_reply(**kwargs)
DeriveReply ==
    /\ built # NoPacket
    /\ Len(issued) <= MaxRepliedDraws
    /\ \E kwargs \in ReplyKwargs, salt \in Salts :
          LET r == CreateReplyWith(built, kwargs, salt)
          IN  /\ r.st = "ok"
              /\ derived' = r.p
              /\ passed' = kwargs
    /\ built0' = built
    /\ UNCHANGED <<current_id, issued, created, built>>
    /\ UNCHANGED nonConstruct

InitConstruct ==
    /\ current_id \in InitialIds
    /\ issued = << >>
    /\ created = NoCall
    /\ built = NoPacket /\ built0 = NoPacket /\ derived = NoPacket
    /\ passed = << >>
    /\ ClientIdle
    /\ CodecIdle
    /\ AuthIdle
    /\ MaIdle
    /\ RestIdle

NextConstruct ==
    \/ Construct
    \/ ConstructWithId
    \/ DeriveReply

SpecConstruct == InitConstruct /\ [][NextConstruct]_vars

(***************************************************************************)
(* Properties of construction (checked under SpecConstruct)                *)
(***************************************************************************)

C17_ReplyInherits ==
    derived # NoPacket =>
        /\ derived.id = built0.id
        /\ derived.authenticator = built0.authenticator
        /\ derived.secret = built0.secret
        /\ Len(derived.attrs) = Len(passed)
        /\ \A i \in 1..Len(passed) :
              /\ derived.attrs[i].key = DictAttr(KwName(passed[i].kw)).key
              /\ Len(derived.attrs[i].vals) = 1
        /\ built = built0

(***************************************************************************)
(* Client.send_packet of an AuthPacket with auth_type eap-md5              *)
(* (client.py lines 174-217).  _send_packet is taken as one call: it puts  *)
(* pkt.create_raw_request() on the wire and then either returns the first  *)
(* datagram that verifies, discarding the others, or raises Timeout.       *)
(***************************************************************************)

EAP_CODE_REQUEST == 1
EAP_CODE_RESPONSE == 2
EAP_TYPE_IDENTITY == 1

\* password = pkt[2][0] if 2 in pkt else pkt[1][0]
EapPassword(p) ==
    IF HasKey(p.attrs, Key(2)) THEN GetItem(p.attrs, Key(2))[1]
    ELSE GetItem(p.attrs, Key(1))[1]

\* Lines 186-192: pkt[79] = [struct.pack('!BBHB%ds', EAP_CODE_RESPONSE,
\* packet.current_id, len(password) + 5, EAP_TYPE_IDENTITY, password)];
\* cur is the module's counter packet.current_id at the time of the call
EapIdentity(p, cur) ==
    LET identity == EapPassword(p)
    IN  [p EXCEPT !.attrs = SetItem(p.attrs, Key(79),
            << <<EAP_CODE_RESPONSE, cur>> \o PackH(Len(identity) + 5)
                 \o <<EAP_TYPE_IDENTITY>> \o identity >>)]

\* Lines 200-217: the answer to an Access-Challenge.  reply[79] and
\* reply[24] raise KeyError when the challenge lacks them, struct.unpack
\* raises struct.error when the EAP message is shorter than its 5-octet
\* header; pkt[79] is replaced before reply[24] is read.  eap_md5[1:] is
\* everything after the Value-Size octet.
EapMd5Response(p, chal) ==
    LET msg       == GetItem(chal.attrs, Key(79))[1]
        eap_id    == msg[2]
        eap_md5   == From(msg, 5)
        client_pw == EapPassword(p)
        digest    == MD5(<<eap_id>> \o client_pw \o From(eap_md5, 1))
        answered  == [p EXCEPT !.attrs = SetItem(p.attrs, Key(79),
                         << <<2, eap_id>> \o PackH(Len(digest) + 6)
                              \o <<4, Len(digest)>> \o digest >>)]
    IN  IF ~HasKey(chal.attrs, Key(79)) THEN [st |-> "KeyError", p |-> p]
        ELSE IF Len(msg) < 5 THEN [st |-> "struct.error", p |-> p]
        ELSE IF ~HasKey(chal.attrs, Key(24)) THEN [st |-> "KeyError", p |-> answered]
        ELSE [st |-> "ok",
              p  |-> [answered EXCEPT !.attrs =
                         SetItem(answered.attrs, Key(24), GetItem(chal.attrs, Key(24)))]]

\* Packets constructed between creating the request and sending it
MaxOthers == 2

\* Datagrams _send_packet reads and discards before one verifies
MaxEapDropped == 1

\* The MD5-Challenge value of the server, 16 octets
ChallengeValue == [i \in 1..16 |-> 100 + i]

\* The EAP ids and the Name fields of the server's challenges
ChallengeIds == {5, 200}
ChallengeNames == {<< >>, <<110>>}

\* An EAP-Request/MD5-Challenge: code 1, id e, length, type 4, Value-Size,
\* Value, Name (RFC 3748 section 5.4)
EapMd5Challenge(e, value, name) ==
    <<EAP_CODE_REQUEST, e>> \o PackH(6 + Len(value) + Len(name))
        \o <<4, Len(value)>> \o value \o name

\* One attribute on the wire
Tlv(code, value) == <<code, Len(value) + 2>> \o value

\* The State attributes of a challenge: none, one value, two values
ChallengeStates ==
    { << >>, Tlv(24, <<83, 116>>), Tlv(24, <<83, 116>>) \o Tlv(24, <<84>>) }

\* What a server answers to a flight: Access-Accept, Access-Reject, an
\* Access-Challenge with no EAP message at all; and to a first flight
\* also Access-Challenges with a truncated EAP message or an MD5-Challenge
\* (with and without a Name, with no, one or two State values).
EapPlainAnswers ==
    {[code |-> ACCESS_ACCEPT, attr |-> OneAttr], [code |-> ACCESS_REJECT, attr |-> << >>],
     [code |-> ACCESS_CHALLENGE, attr |-> Tlv(24, <<83, 116>>)]}

EapAnswers ==
    EapPlainAnswers
    \cup {[code |-> ACCESS_CHALLENGE, attr |-> Tlv(79, <<1, 5, 0, 4>>) \o Tlv(24, <<83, 116>>)]}
    \cup { [code |-> ACCESS_CHALLENGE,
            attr |-> Tlv(79, EapMd5Challenge(e, ChallengeValue, name)) \o states] :
             e \in ChallengeIds, name \in ChallengeNames, states \in ChallengeStates }

\* User-Name and, in some requests, a value under key 2
EapRequestAttrs ==
    { << [key |-> Key(1), vals |-> << <<117>> >>] >>,
      << [key |-> Key(1), vals |-> << <<117>> >>], [key |-> Key(2), vals |-> << <<112, 119>> >>] >> }

\* AuthPacket(auth_type='eap-md5', ...): without id= the constructor draws
\* the id from create_id(), with id= the counter is left alone
EapConstruct ==
    /\ epc = "idle" /\ epkt = NoPacket
    /\ \E attrs \in EapRequestAttrs, explicit \in BOOLEAN, given \in ExplicitIds :
          LET id == IF explicit THEN given ELSE create_id(current_id)
          IN  /\ epkt' = [NewPacket("auth", ACCESS_REQUEST, id, Secret, None, FALSE, "eap-md5")
                            EXCEPT !.attrs = attrs]
              /\ current_id' = IF explicit THEN current_id ELSE id
    /\ UNCHANGED <<epc, eflights, echallenge, eothers, edropped, eoutcome, ereturned>>
    /\ UNCHANGED <<issued, created, built, built0, derived, passed>>
    /\ UNCHANGED nonEap

\* Another packet is constructed before the request is sent
EapConstructOther ==
    /\ epc = "idle" /\ epkt # NoPacket
    /\ eothers < MaxOthers
    /\ current_id' = create_id(current_id)
    /\ eothers' = eothers + 1
    /\ UNCHANGED <<epc, epkt, eflights, echallenge, edropped, eoutcome, ereturned>>
    /\ UNCHANGED <<issued, created, built, built0, derived, passed>>
    /\ UNCHANGED nonEap

\* Lines 184-193: the identity is attached and _send_packet puts the
\* first flight on the wire
EapFirstFlight ==
    /\ epc = "idle" /\ epkt # NoPacket
    /\ \E rnd \in RandomAuthenticators :
          LET r == AuthCreateRawRequest(EapIdentity(epkt, current_id), rnd)
          IN  /\ r.st = "ok"
              /\ epkt' = r.p
              /\ eflights' = <<r.raw>>
    /\ epc' = "wait1"
    /\ UNCHANGED <<echallenge, eothers, edropped, eoutcome, ereturned>>
    /\ UNCHANGED kvars
    /\ UNCHANGED nonEap

\* A datagram arrives that does not verify (it was made with another
\* secret): _send_packet reads on
EapDiscard ==
    /\ epc \in {"wait1", "wait2"}
    /\ edropped < MaxEapDropped
    /\ \E a \in EapPlainAnswers :
          LET raw == ServerReply(eflights[Len(eflights)], OtherSecret, a.code, epkt.id, a.attr)
          IN  HandleDatagram(epkt, raw) = "discard"
    /\ edropped' = edropped + 1
    /\ UNCHANGED <<epc, epkt, eflights, echallenge, eothers, eoutcome, ereturned>>
    /\ UNCHANGED kvars
    /\ UNCHANGED nonEap

\* No datagram verifies in time: Timeout leaves send_packet
EapTimeout ==
    /\ epc \in {"wait1", "wait2"}
    /\ epc' = "done"
    /\ eoutcome' = "Timeout"
    /\ UNCHANGED <<epkt, eflights, echallenge, eothers, edropped, ereturned>>
    /\ UNCHANGED kvars
    /\ UNCHANGED nonEap

\* Lines 193-217: the first _send_packet returns a verified reply; an
\* Access-Challenge is answered with the second flight, anything else is
\* returned
EapReply1 ==
    /\ epc = "wait1"
    /\ \E a \in EapAnswers :
          LET raw == ServerReply(eflights[1], Secret, a.code, epkt.id, a.attr)
              got == CreateReplyFromRaw(epkt, raw)
              ans == EapMd5Response(epkt, got.p)
              out == AuthCreateRawRequest(ans.p, None)
          IN  /\ HandleDatagram(epkt, raw) = "return"
              /\ IF got.p.code # ACCESS_CHALLENGE
                 THEN /\ epc' = "done" /\ eoutcome' = "reply"
                      /\ ereturned' = got.p.code
                      /\ UNCHANGED <<epkt, eflights, echallenge>>
                 ELSE IF ans.st # "ok"
                 THEN /\ epc' = "done" /\ eoutcome' = ans.st
                      /\ epkt' = ans.p
                      /\ echallenge' = [raw |-> raw, p |-> got.p]
                      /\ UNCHANGED <<eflights, ereturned>>
                 ELSE /\ out.st = "ok"
                      /\ epc' = "wait2" /\ eoutcome' = "none"
                      /\ epkt' = out.p
                      /\ eflights' = Append(eflights, out.raw)
                      /\ echallenge' = [raw |-> raw, p |-> got.p]
                      /\ UNCHANGED ereturned
    /\ UNCHANGED <<eothers, edropped>>
    /\ UNCHANGED kvars
    /\ UNCHANGED nonEap

\* Lines 217-218: the second _send_packet returns a verified reply, which
\* send_packet returns whatever its code
EapReply2 ==
    /\ epc = "wait2"
    /\ \E a \in EapPlainAnswers :
          LET raw == ServerReply(eflights[2], Secret, a.code, epkt.id, a.attr)
          IN  /\ HandleDatagram(epkt, raw) = "return"
              /\ ereturned' = CreateReplyFromRaw(epkt, raw).p.code
    /\ epc' = "done"
    /\ eoutcome' = "reply"
    /\ UNCHANGED <<epkt, eflights, echallenge, eothers, edropped>>
    /\ UNCHANGED kvars
    /\ UNCHANGED nonEap

InitEap ==
    /\ current_id \in InitialIds
    /\ issued = << >>
    /\ created = NoCall
    /\ built = NoPacket /\ built0 = NoPacket /\ derived = NoPacket
    /\ passed = << >>
    /\ EapIdle
    /\ ServerIdle
    /\ EncodeIdle
    /\ ClientIdle
    /\ CodecIdle
    /\ AuthIdle
    /\ MaIdle

NextEap ==
    \/ EapConstruct
    \/ EapConstructOther
    \/ EapFirstFlight
    \/ EapDiscard
    \/ EapTimeout
    \/ EapReply1
    \/ EapReply2

SpecEap == InitEap /\ [][NextEap]_vars

\* The EAP message (first value under key 79) a flight carries
EapMessageOf(raw) == GetItem(DecodePacket(raw).attrs, Key(79))[1]

\* C21: the first flight of an eap-md5 request carries in attribute 79 an
\* EAP-Response/Identity with code 2, type 1, length = identity length + 5
\* and the id of the Access-Request datagram that carries it, also when
\* other packets were constructed between creating the request and sending it
C21_IdentityCarriesRequestId ==
    Len(eflights) >= 1 =>
        LET raw == eflights[1]
            msg == EapMessageOf(raw)
        IN  /\ msg[1] = EAP_CODE_RESPONSE
            /\ msg[5] = EAP_TYPE_IDENTITY
            /\ UnpackH(Slice(msg, 2, 4)) = Len(From(msg, 5)) + 5
            /\ msg[2] = raw[2]

\* Which MD5-Challenge the verified challenge carried, with a State
ChallengedWith(e, name) ==
    /\ echallenge # NoChallenge
    /\ HasKey(echallenge.p.attrs, Key(79))
    /\ GetItem(echallenge.p.attrs, Key(79))[1] = EapMd5Challenge(e, ChallengeValue, name)
    /\ HasKey(echallenge.p.attrs, Key(24))

\* C22: after a verified Access-Challenge carrying an MD5-Challenge with
\* value C, EAP id e and a State, a second flight is sent whose attribute 79
\* is the EAP-Response (code 2, id e, type 4) carrying MD5(e || password || C)
\* and whose attribute 24 is the challenge's State; and a second flight is
\* only ever sent after a challenge that verified against the first
C22_ChallengeAnswered ==
    /\ Len(eflights) >= 2 =>
          /\ echallenge # NoChallenge
          /\ HandleDatagram(epkt, echallenge.raw) = "return"
          /\ echallenge.p.code = ACCESS_CHALLENGE
    /\ \A e \in ChallengeIds, name \in ChallengeNames :
          ChallengedWith(e, name)
          => /\ Len(eflights) >= 2
             /\ LET d == DecodePacket(eflights[2])
                IN  /\ GetItem(d.attrs, Key(79))
                         = << <<2, e>> \o PackH(22) \o <<4, 16>>
                               \o MD5(<<e>> \o EapPassword(epkt) \o ChallengeValue) >>
                    /\ GetItem(d.attrs, Key(24)) = GetItem(echallenge.p.attrs, Key(24))

(***************************************************************************)
(* The server main loop (Server.run) with _process_input, _grab_packet     *)
(* and the role routines _handle_auth_packet, _handle_acct_packet and      *)
(* _handle_coa_packet, as section 4.5 of the specification and             *)
(* src/pyrad/tests/testServer.py describe them; the decoder the packet     *)
(* generators run and Host.send_reply_packet are those of the source.      *)
(***************************************************************************)

\* Events poll() returns in one run
MaxEvents == 2

\* Events poll() returns in one call
MaxReady == 2

\* self.hosts: the authorised peers by source IP, each with its secret
HostTable == [ip \in {"nas1", "nas2"} |-> IF ip = "nas1" THEN Secret ELSE OtherSecret]

\* authfds, acctfds, coafds: two addresses are bound for authentication
ServerFds == {"auth0", "auth1", "acct0", "coa0"}

\* Which of _realauthfds, _realacctfds, _realcoafds holds the fd
FdRole(fd) ==
    CASE fd \in {"auth0", "auth1"} -> "auth"
      [] fd = "acct0" -> "acct"
      [] fd = "coa0"  -> "coa"

\* The request codes of a role
RoleCodes(role) ==
    CASE role = "auth" -> {ACCESS_REQUEST}
      [] role = "acct" -> {ACCOUNTING_REQUEST}
      [] role = "coa"  -> {COA_REQUEST, DISCONNECT_REQUEST}

\* The dispatch that gives every packet of the coa socket to handle_coa_packet
HandlerOf_CoaOnly(code) ==
    CASE code = ACCESS_REQUEST     -> "handle_auth_packet"
      [] code = ACCOUNTING_REQUEST -> "handle_acct_packet"
      [] OTHER                     -> "handle_coa_packet"

\* The handler a role routine calls for an admitted packet
HandlerOf(code) ==
    CASE code = ACCESS_REQUEST      -> "handle_auth_packet"
      [] code = ACCOUNTING_REQUEST  -> "handle_acct_packet"
      [] code = COA_REQUEST         -> "handle_coa_packet"
      [] code = DISCONNECT_REQUEST  -> "handle_disconnect_packet"

\* A request datagram of the given code with User-Name "u"
RequestDatagram(code) == PeerDatagram(code, 23, <<1, 3, 117>>)

\* What recvfrom returns on a readable socket: (data, source)
FromPeer(ip, raw) == [source |-> <<ip, 40000>>, raw |-> raw]

\* The events poll() reports: a readable socket with the datagram recvfrom
\* will return on it, or an error on a socket
ServerEvents ==
    { [fd |-> "auth0", ev |-> "POLLIN", dg |-> FromPeer("nas1", raw)] :
          raw \in { RequestDatagram(ACCESS_REQUEST), RequestDatagram(ACCOUNTING_REQUEST),
                    Slice(RequestDatagram(ACCESS_REQUEST), 0, 19),
                    PeerDatagram(ACCESS_REQUEST, 20 + Len(HangingVsa), HangingVsa) } }
    \cup { [fd |-> "auth0", ev |-> "POLLIN", dg |-> FromPeer(ip, RequestDatagram(ACCESS_REQUEST))] :
              ip \in {"nas2", "stranger"} }
    \cup { [fd |-> "auth1", ev |-> "POLLIN", dg |-> FromPeer("nas1", RequestDatagram(ACCESS_REQUEST))] }
    \cup { [fd |-> "acct0", ev |-> "POLLIN", dg |-> FromPeer("nas1", RequestDatagram(c))] :
              c \in {ACCOUNTING_REQUEST, ACCESS_REQUEST} }
    \cup { [fd |-> "acct0", ev |-> "POLLIN", dg |-> FromPeer("stranger", RequestDatagram(ACCOUNTING_REQUEST))] }
    \cup { [fd |-> "coa0", ev |-> "POLLIN", dg |-> FromPeer("nas2", RequestDatagram(c))] :
              c \in {COA_REQUEST, DISCONNECT_REQUEST, ACCESS_REQUEST} }
    \cup { [fd |-> "auth0", ev |-> "POLLERR", dg |-> FromPeer("", << >>)] }

\* _grab_packet(pktgen, fd): one recvfrom, the packet generator of the role
\* decodes the datagram, and the packet gets source and fd
GrabPacket(role, fd, dg) ==
    LET d == DecodePacket(dg.raw)
    IN  [st  |-> d.st,
         pkt |-> [p |-> [kind |-> role, code |-> d.code, id |-> d.id, secret |-> << >>,
                         authenticator |-> d.authenticator,
                         message_authenticator |-> d.message_authenticator,
                         auth_type |-> "pap", attrs |-> d.attrs],
                  source |-> dg.source, fd |-> fd]]

\* The role routine with no test of the source
HandlePacket_AnyHost(role, rq) ==
    IF rq.p.code \notin RoleCodes(role)
    THEN [st |-> "ServerPacketError", msg |-> "port", pkt |-> rq]
    ELSE [st |-> "ok", msg |-> "",
          pkt |-> [rq EXCEPT !.p.secret =
                      IF rq.source[1] \in DOMAIN HostTable THEN HostTable[rq.source[1]]
                      ELSE << >>]]

\* _handle_auth_packet, _handle_acct_packet, _handle_coa_packet up to the
\* call of the handler: the source must be in self.hosts, the code one of
\* the role; then pkt.secret = self.hosts[pkt.source[0]].secret
HandlePacket(role, rq) ==
    IF rq.source[1] \notin DOMAIN HostTable
    THEN [st |-> "ServerPacketError", msg |-> "unknown host", pkt |-> rq]
    ELSE IF rq.p.code \notin RoleCodes(role)
    THEN [st |-> "ServerPacketError", msg |-> "port", pkt |-> rq]
    ELSE [st |-> "ok", msg |-> "",
          pkt |-> [rq EXCEPT !.p.secret = HostTable[rq.source[1]]]]

\* Server.create_reply_packet(pkt, **attributes): pkt.create_reply with
\* the attributes, and reply.source = pkt.source
CreateReplyPacket(rq, attrs) ==
    [p |-> CreateReply(rq.p, attrs), source |-> rq.source]

\* send_reply_packet sending to the peer's address with the port of the
\* service
SendReplyPacket_ToServicePort(fd, rp) ==
    LET r == CreateRawReply(rp.p)
    IN  [st |-> r.st, fd |-> fd, to |-> <<rp.source[1], DefaultAuthPort>>, raw |-> r.raw]

\* Host.send_reply_packet(fd, pkt): fd.sendto(pkt.create_raw_reply(), pkt.source)
SendReplyPacket(fd, rp) ==
    LET r == CreateRawReply(rp.p)
    IN  [st |-> r.st, fd |-> fd, to |-> rp.source, raw |-> r.raw]

\* What a handler of the application does with the packet: nothing (the
\* handlers of Server), answer it, or raise ServerPacketError
HandlerBehaviours == {"quiet", "reply", "ServerPacketError"}

\* The attributes a handler gives create_reply_packet
HandlerReplyAttrs == << [key |-> Key(18), vals |-> << <<111>> >>] >>

\* poll() returns: the loop gets its list of (fd, event)
ServerPoll ==
    /\ spc = "poll"
    /\ \E k \in 1..MaxReady :
          /\ sevents + k <= MaxEvents
          /\ \E ready \in [1..k -> ServerEvents] :
                spending' = [i \in 1..k |-> [n |-> sevents + i, fd |-> ready[i].fd,
                                             ev |-> ready[i].ev, dg |-> ready[i].dg]]
          /\ sevents' = sevents + k
    /\ spc' = "for"
    /\ UNCHANGED <<slog, shandled, ssent>>
    /\ UNCHANGED nonServer

\* The loop after an event: the next of the list, or poll() again
AfterEvent == IF Len(spending) > 1 THEN "for" ELSE "poll"

\* An event other than POLLIN: it is logged
ServerPollError ==
    /\ spc = "for"
    /\ Head(spending).ev = "POLLERR"
    /\ slog' = Append(slog, [n |-> Head(spending).n, fd |-> Head(spending).fd, ev |-> "POLLERR",
                             dg |-> Head(spending).dg, st |-> "error event", msg |-> ""])
    /\ spending' = Tail(spending)
    /\ spc' = AfterEvent
    /\ UNCHANGED <<sevents, shandled, ssent>>
    /\ UNCHANGED nonServer

\* POLLIN: _process_input(fd) inside try: _grab_packet, the role routine,
\* the handler of the application, and whatever the handler sends;
\* ServerPacketError and PacketError are logged and the loop goes on.  A
\* decoder that does not return leaves the loop inside _grab_packet.
ServerProcessInput ==
    /\ spc = "for"
    /\ Head(spending).ev = "POLLIN"
    /\ LET e    == Head(spending)
           role == FdRole(e.fd)
           g    == GrabPacket(role, e.fd, e.dg)
           h    == HandlePacket(role, g.pkt)
           log(st, msg) == Append(slog, [n |-> e.n, fd |-> e.fd, ev |-> "POLLIN", dg |-> e.dg,
                                         st |-> st, msg |-> msg])
       IN  IF g.st = "hang"
           THEN /\ spc' = "hung"
                /\ UNCHANGED <<spending, slog, shandled, ssent>>
           ELSE /\ spending' = Tail(spending)
                /\ spc' = AfterEvent
                /\ IF g.st # "ok"
                   THEN /\ slog' = log(g.st, "")
                        /\ UNCHANGED <<shandled, ssent>>
                   ELSE IF h.st # "ok"
                   THEN /\ slog' = log(h.st, h.msg)
                        /\ UNCHANGED <<shandled, ssent>>
                   ELSE \E b \in HandlerBehaviours :
                          LET answer == CreateReplyPacket(h.pkt, HandlerReplyAttrs)
                              out   == SendReplyPacket(h.pkt.fd, answer)
                          IN  /\ shandled' = Append(shandled,
                                    [n |-> e.n, handler |-> HandlerOf(h.pkt.p.code), pkt |-> h.pkt])
                              /\ IF b = "reply"
                                 THEN /\ out.st = "ok"
                                      /\ ssent' = Append(ssent,
                                            [n |-> e.n, reply |-> answer, fd |-> out.fd,
                                             to |-> out.to, raw |-> out.raw])
                                      /\ slog' = log("ok", "")
                                 ELSE /\ UNCHANGED ssent
                                      /\ slog' = log(IF b = "quiet" THEN "ok" ELSE b, "")
    /\ UNCHANGED sevents
    /\ UNCHANGED nonServer

InitServer ==
    /\ spc = "poll"
    /\ spending = << >>
    /\ sevents = 0
    /\ slog = << >> /\ shandled = << >> /\ ssent = << >>
    /\ ClientIdle
    /\ CodecIdle
    /\ AuthIdle
    /\ MaIdle
    /\ ConstructIdle
    /\ EapIdle
    /\ EncodeIdle

NextServer ==
    \/ ServerPoll
    \/ ServerPollError
    \/ ServerProcessInput

SpecServer == InitServer /\ [][NextServer]_vars

(***************************************************************************)
(* Properties of the server loop (checked under SpecServer)                *)
(***************************************************************************)

\* The handler calls and the datagrams sent while event n was processed
HandledIn(n) == { i \in 1..Len(shandled) : shandled[i].n = n }
SentIn(n) == { i \in 1..Len(ssent) : ssent[i].n = n }

\* The log entry of event n
LogOf(n) == slog[CHOOSE i \in 1..Len(slog) : slog[i].n = n]

\* C23: a handler runs for a received packet only if its source IP is in
\* the host table and its code is a request code of the socket's role; a
\* decoded packet from an unknown source gives ServerPacketError with
\* "unknown host", one with a code foreign to the role ServerPacketError
\* with "port", and then no handler runs and nothing is sent.
C23_Admission ==
    /\ \A i \in 1..Len(shandled) :
          LET l == LogOf(shandled[i].n)
          IN  /\ l.dg.source[1] \in DOMAIN HostTable
              /\ l.dg.raw[1] \in RoleCodes(FdRole(l.fd))
    /\ \A i \in 1..Len(slog) :
          LET l == slog[i]
          IN  (l.ev = "POLLIN" /\ DecodePacket(l.dg.raw).st = "ok") =>
                 /\ l.dg.source[1] \notin DOMAIN HostTable =>
                       /\ l.st = "ServerPacketError" /\ l.msg = "unknown host"
                       /\ HandledIn(l.n) = {} /\ SentIn(l.n) = {}
                 /\ (l.dg.source[1] \in DOMAIN HostTable
                        /\ l.dg.raw[1] \notin RoleCodes(FdRole(l.fd))) =>
                       /\ l.st = "ServerPacketError" /\ l.msg = "port"
                       /\ HandledIn(l.n) = {} /\ SentIn(l.n) = {}

\* C23 witness: a packet from an unknown host was dropped and then a
\* packet of a known host with a code foreign to the socket
C23_BothRefused ==
    /\ Len(slog) = 2
    /\ slog[1].msg = "unknown host"
    /\ slog[2].msg = "port"
    /\ slog[2].fd = "coa0"

\* C24: the loop never stops because of a datagram: it is polling or going
\* through the events poll() returned, every event is processed in its
\* turn, and after an event that ended with ServerPacketError, PacketError
\* or an error event the later ones are processed.
C24_LoopGoesOn ==
    /\ spc \in {"poll", "for"}
    /\ \A i \in 1..Len(slog) : slog[i].n = i
    /\ Len(slog) + Len(spending) = sevents

\* C25: for an event POLLIN one datagram is grabbed and goes to the routine
\* of the socket's role; for an admitted packet the handler of the role
\* (for the coa socket: of the code) is called exactly once, with the
\* packet decoded from that datagram, its source and fd, and the secret of
\* the source's host.
C25_OneGrabOneHandler ==
    /\ \A i \in 1..Len(slog) :
          LET l == slog[i]
              d == DecodePacket(l.dg.raw)
          IN  /\ Cardinality(HandledIn(l.n)) <= 1
              /\ (/\ l.ev = "POLLIN" /\ d.st = "ok"
                  /\ l.dg.source[1] \in DOMAIN HostTable
                  /\ d.code \in RoleCodes(FdRole(l.fd)))
                 => Cardinality(HandledIn(l.n)) = 1
    /\ \A i \in 1..Len(shandled) :
          LET l == LogOf(shandled[i].n)
              d == DecodePacket(l.dg.raw)
              k == shandled[i].pkt
          IN  /\ l.ev = "POLLIN"
              /\ shandled[i].handler =
                    (CASE FdRole(l.fd) = "auth" -> "handle_auth_packet"
                       [] FdRole(l.fd) = "acct" -> "handle_acct_packet"
                       [] FdRole(l.fd) = "coa" /\ d.code = COA_REQUEST -> "handle_coa_packet"
                       [] FdRole(l.fd) = "coa" /\ d.code # COA_REQUEST -> "handle_disconnect_packet")
              /\ k.fd = l.fd /\ k.source = l.dg.source
              /\ k.p.code = d.code /\ k.p.id = d.id /\ k.p.attrs = d.attrs
              /\ k.p.authenticator = d.authenticator
              /\ k.p.secret = HostTable[l.dg.source[1]]

\* C25 witness: a Disconnect-Request of nas2 on the coa socket and an
\* Access-Request of nas1 on the second auth socket were handled
C25_TwoHandled ==
    /\ Len(shandled) = 2
    /\ shandled[1].handler = "handle_disconnect_packet"
    /\ shandled[1].pkt.p.secret = OtherSecret
    /\ shandled[2].pkt.fd = "auth1"
    /\ shandled[2].pkt.p.secret = Secret

\* C26: the reply create_reply_packet makes has the source of the incoming
\* packet, and send_reply_packet sends the octets of create_raw_reply() of
\* the reply on the given fd to reply.source: the reply goes to the address
\* the request came from on the socket it arrived on.
C26_ReplyGoesBack ==
    \A i \in 1..Len(ssent) :
        LET l == LogOf(ssent[i].n)
            s == ssent[i]
        IN  /\ s.reply.source = l.dg.source
            /\ s.to = s.reply.source
            /\ s.to = l.dg.source
            /\ s.fd = l.fd
            /\ s.raw = CreateRawReply(s.reply.p).raw
            /\ Cardinality(HandledIn(s.n)) = 1

\* C26 witness: requests on two sockets from two peers were both answered
C26_TwoAnswered ==
    /\ Len(ssent) = 2
    /\ ssent[1].fd # ssent[2].fd
    /\ ssent[1].to # ssent[2].to

(***************************************************************************)
(* Single calls of encode_string, of pkt[name] = value for tagged and      *)
(* untagged attributes, of salt_crypt and of create_reply, each on         *)
(* arguments drawn from bounded sets.                                      *)
(***************************************************************************)

\* str.encode('utf-8') of a text given as its code points (below 2048)
RECURSIVE Utf8Encode(_)
Utf8Encode(chars) ==
    IF Len(chars) = 0 THEN << >>
    ELSE IF Len(chars) = 1 THEN ChrUtf8(chars[1])
    ELSE LET h == Len(chars) \div 2
         IN  CHOOSE s \in { Utf8Encode(Slice(chars, 0, h)) \o Utf8Encode(From(chars, h)) } : TRUE

\* encode_string(string) of a str: len(string) counts characters, the
\* test comes before string.encode('utf-8')
EncodeStringText(chars) ==
    IF Len(chars) > 253 THEN [st |-> "ValueError", val |-> << >>]
    ELSE [st |-> "ok", val |-> Utf8Encode(chars)]

\* Lengths in characters of the texts encoded
TextLengths == {0, 1, 126, 127, 128, 253, 254}

\* Texts of one character repeated ("a": one octet, U+00E9: two), and 252
\* times "a" with U+00E9 at the end
Texts ==
    { [i \in 1..n |-> c] : n \in TextLengths, c \in {97, 233} }
    \cup { [i \in 1..253 |-> IF i = 253 THEN 233 ELSE 97] }

\* The text after ':' in the key given to pkt[...], "" when there is none
TagTexts == {"", "0", "1", "31"}

\* tag = '0' if tag == '' else tag; int(tag)
TagOf(text) ==
    CASE text = ""   -> 0
      [] text = "0"  -> 0
      [] text = "1"  -> 1
      [] text = "31" -> 31

\* pkt[name + ":" + text] = value, or pkt[name] = value when text is ""
SetItemKey(p, name, text, value, salt) == SetItemName(p, name, TagOf(text), value, salt)

\* The numbers and the octet strings assigned
IntegerValues == {0, 1, 65538, 50331653, 1073741823}
StringValues == { <<97>>, <<97, 98, 99>> }

\* The draws of random_generator.randrange(0, 32767) in salt_crypt
SaltRandoms == {0, 7232, 32766}

\* random_value = 32768 + random_generator.randrange(0, 32767)
SaltOf(random15) == 32768 + random15

\* The plaintext values given to salt_crypt, by length
SaltValueLengths == {0, 1, 14, 15, 16, 30, 31, 32}
SaltValue(n) == [i \in 1..n |-> 64 + i]

\* The packets the calls are made on: with and without an authenticator
CallPackets ==
    { NewPacket("auth", ACCESS_REQUEST, 7, Secret, a, FALSE, "pap") :
          a \in {None, SuppliedAuthenticator} }

\* The requests replied to, as received
RepliedRequests ==
    { NewPacket(k.kind, k.code, 7, Secret, SuppliedAuthenticator, FALSE, "pap") :
          k \in { [kind |-> "auth", code |-> ACCESS_REQUEST],
                  [kind |-> "acct", code |-> ACCOUNTING_REQUEST],
                  [kind |-> "coa",  code |-> COA_REQUEST],
                  [kind |-> "coa",  code |-> DISCONNECT_REQUEST] } }

\* tools.encode_string(text)
CallEncodeString ==
    /\ \E text \in Texts :
          /\ xin' = [string |-> text]
          /\ xout' = EncodeStringText(text)
    /\ xpc' = "encode_string"
    /\ UNCHANGED nonEncode

\* pkt[key] = value
CallSetItem ==
    /\ \E a \in Dictionary, text \in TagTexts, p \in CallPackets, random15 \in SaltRandoms :
          \E value \in IF a.type = "integer" THEN { Halves(n) : n \in IntegerValues }
                       ELSE StringValues :
             /\ a.key # Key(80)
             /\ a.encrypt # 2 => random15 = 0
             /\ xin' = [name |-> a.name, text |-> text, value |-> value, p |-> p,
                        salt |-> IF a.encrypt = 2 THEN SaltOf(random15) ELSE 0]
             /\ xout' = SetItemKey(p, a.name, text, value, SaltOf(random15))
    /\ xpc' = "setitem"
    /\ UNCHANGED nonEncode

\* pkt.salt_crypt(value)
CallSaltCrypt ==
    /\ \E n \in SaltValueLengths, random15 \in SaltRandoms, p \in CallPackets :
          /\ xin' = [value |-> SaltValue(n), p |-> p]
          /\ xout' = SaltCrypt(p, SaltValue(n), SaltOf(random15))
    /\ xpc' = "salt_crypt"
    /\ UNCHANGED nonEncode

\* pkt.create_reply()
CallCreateReply ==
    /\ \E p \in RepliedRequests :
          /\ xin' = [p |-> p]
          /\ xout' = CreateReply(p, << >>)
    /\ xpc' = "create_reply"
    /\ UNCHANGED nonEncode

(***************************************************************************)
(* The packet as a map of names: pkt[name] = values, add_attribute, del,   *)
(* get and `in`: a sequence of calls on one packet (SpecMap)               *)
(***************************************************************************)

\* Calls made on the one packet
MaxMapOps == 3

\* name in self.dict.attributes
InDictionary(name) == \E a \in Dictionary : a.name = name

\* Packet._decode_value(attr, value) for an attribute without named values:
\* decode_integer for an integer (in halves, as the values given are), the
\* text of the octets for a string (a text is carried as its UTF-8 octets)
DecodeValue(a, v) == IF a.type = "integer" THEN Halves(decode_integer(v)) ELSE v

\* Packet.add_attribute(name, values) for a list of values: the key is made
\* with an empty list when absent, and every encoded value is appended
RECURSIVE AddAttributeValues(_, _, _, _, _)
AddAttributeValues(p, name, tag, values, salt) ==
    IF ~InDictionary(name) THEN [st |-> "KeyError", p |-> p]
    ELSE IF values = << >>
    THEN [st |-> "ok",
          p  |-> IF HasKey(p.attrs, DictAttr(name).key) THEN p
                 ELSE [p EXCEPT !.attrs = SetItem(p.attrs, DictAttr(name).key, << >>)]]
    ELSE LET first == AddAttribute(p, name, tag, Head(values), salt)
         IN  IF first.st # "ok" THEN first
             ELSE AddAttributeValues(first.p, name, tag, Tail(values), salt)

\* pkt[name] = values for a list of values (Packet.__setitem__): every
\* value is encoded, then the list replaces what was under the key
SetItemValues(p, name, tag, values, salt) ==
    IF ~InDictionary(name) THEN [st |-> "KeyError", p |-> p]
    ELSE LET fresh == AddAttributeValues([p EXCEPT !.attrs = << >>], name, tag, values, salt)
         IN  IF fresh.st # "ok" THEN [st |-> fresh.st, p |-> p]
             ELSE [st |-> "ok",
                   p  |-> [fresh.p EXCEPT !.attrs =
                              SetItem(p.attrs, DictAttr(name).key,
                                      GetItem(fresh.p.attrs, DictAttr(name).key))]]

\* del pkt[name] (Packet.__delitem__): KeyError for a name the dictionary
\* does not have and for a key that is not in the packet
DelItemName(p, name) ==
    IF ~InDictionary(name) THEN [st |-> "KeyError", p |-> p]
    ELSE IF ~HasKey(p.attrs, DictAttr(name).key) THEN [st |-> "KeyError", p |-> p]
    ELSE [st |-> "ok",
          p  |-> [p EXCEPT !.attrs = SelectSeq(p.attrs, LAMBDA en : en.key # DictAttr(name).key)]]

\* Packet.get(name) with failobj None: found is FALSE when None is returned,
\* else vals is the list __getitem__ returns, every stored value decoded
GetName(p, name) ==
    IF ~InDictionary(name) THEN [found |-> FALSE, vals |-> << >>]
    ELSE IF ~HasKey(p.attrs, DictAttr(name).key) THEN [found |-> FALSE, vals |-> << >>]
    ELSE LET stored == GetItem(p.attrs, DictAttr(name).key)
         IN  [found |-> TRUE,
              vals  |-> [i \in 1..Len(stored) |-> DecodeValue(DictAttr(name), stored[i])]]

\* name in pkt (Packet.__contains__): False for a name the dictionary does
\* not have
ContainsName(p, name) ==
    IF ~InDictionary(name) THEN FALSE ELSE HasKey(p.attrs, DictAttr(name).key)

\* The names used: a string attribute, an integer attribute, a tagged
\* integer attribute, and a name the dictionary does not have
MapNames == {"User-Name", "Acct-Delay-Time", "Tunnel-Type", "Framed-Pool"}

\* The values given under a name: none, a scalar, a list of two
MapValues(name) ==
    IF name = "User-Name" THEN { << >>, << <<117>> >>, << <<97, 98>>, <<117>> >> }
    ELSE { << >>, << Halves(5) >>, << Halves(65538), Halves(5) >> }

\* The calls: pkt[name] = values and pkt.add_attribute(name, values), for
\* the tagged attribute also as name:1, and del pkt[name]
MapOps ==
    UNION { { [op |-> o, name |-> n, tag |-> 0, values |-> v] :
                 o \in {"set", "add"}, v \in MapValues(n) } : n \in MapNames \ {"Framed-Pool"} }
    \cup { [op |-> o, name |-> "Tunnel-Type", tag |-> 1, values |-> << Halves(5) >>] :
              o \in {"set", "add"} }
    \cup { [op |-> o, name |-> "Framed-Pool", tag |-> 0, values |-> << <<117>> >>] :
              o \in {"set", "add"} }
    \cup { [op |-> "del", name |-> n, tag |-> 0, values |-> << >>] : n \in MapNames }

\* The packet before the first call, and the calls made so far
MapPacket ==
    IF xpc = "map" THEN xout.p
    ELSE NewPacket("auth", ACCESS_REQUEST, 7, Secret, SuppliedAuthenticator, FALSE, "pap")

MapCalls == IF xpc = "map" THEN xin.ops ELSE << >>

\* pkt[name] = values
CallSetItemValues ==
    /\ Len(MapCalls) < MaxMapOps
    /\ \E o \in MapOps :
          /\ o.op = "set"
          /\ xin' = [ops |-> Append(MapCalls, o)]
          /\ xout' = SetItemValues(MapPacket, o.name, o.tag, o.values, 0)
    /\ xpc' = "map"
    /\ UNCHANGED nonEncode

\* pkt.add_attribute(name, values)
CallAddAttribute ==
    /\ Len(MapCalls) < MaxMapOps
    /\ \E o \in MapOps :
          /\ o.op = "add"
          /\ xin' = [ops |-> Append(MapCalls, o)]
          /\ xout' = AddAttributeValues(MapPacket, o.name, o.tag, o.values, 0)
    /\ xpc' = "map"
    /\ UNCHANGED nonEncode

\* del pkt[name]
CallDelItem ==
    /\ Len(MapCalls) < MaxMapOps
    /\ \E o \in MapOps :
          /\ o.op = "del"
          /\ xin' = [ops |-> Append(MapCalls, o)]
          /\ xout' = DelItemName(MapPacket, o.name)
    /\ xpc' = "map"
    /\ UNCHANGED nonEncode

InitCalls ==
    /\ EncodeIdle
    /\ ClientIdle
    /\ CodecIdle
    /\ AuthIdle
    /\ MaIdle
    /\ ConstructIdle
    /\ EapIdle
    /\ ServerIdle

NextCalls ==
    \/ CallEncodeString
    \/ CallSetItem
    \/ CallSaltCrypt
    \/ CallCreateReply

SpecCalls == InitCalls /\ [][NextCalls]_vars

\* A sequence of calls on one packet
NextMap ==
    \/ CallSetItemValues
    \/ CallAddAttribute
    \/ CallDelItem

SpecMap == InitCalls /\ [][NextMap]_vars

(***************************************************************************)
(* Properties of the single calls (checked under SpecCalls)                *)
(***************************************************************************)

\* C27: encode_string raises for every text whose UTF-8 encoding is longer
\* than 253 octets, also when it has fewer than 254 characters, and returns
\* the UTF-8 octets of every text of at most 253 octets.
C27_StringLimitInOctets ==
    xpc = "encode_string" =>
        LET octets == Utf8Encode(xin.string)
        IN  /\ Len(octets) > 253 => xout.st = "ValueError"
            /\ Len(octets) <= 253 => xout = [st |-> "ok", val |-> octets]

\* The value the assignment stored under the attribute's key
Stored == GetItem(xout.p.attrs, DictAttr(xin.name).key)[1]

\* The value as _encode_value gives it: 4 octets big-endian for an
\* integer, the octets of a string, salt-encrypted for encrypt=2
EncodedValue ==
    LET a == DictAttr(xin.name)
    IN  IF a.type = "integer"
        THEN LET n == xin.value \div 2
             IN  << (n \div 16777216) % 256, (n \div 65536) % 256, (n \div 256) % 256, n % 256 >>
        ELSE IF a.encrypt = 2 THEN SaltCrypt(xin.p, xin.value, xin.salt).val
        ELSE xin.value

\* C28: for an attribute with has_tag, pkt[name] = v and pkt[name:tag] = v
\* store one value, a tag octet (0 without a tag) followed by the encoded
\* value; for an integer attribute 4 octets, the tag and the low three
\* octets of the 32-bit big-endian number; without has_tag the encoded
\* value with no tag octet.
C28_TagOctet ==
    xpc = "setitem" =>
        LET a   == DictAttr(xin.name)
            tag == CASE xin.text = "" -> 0 [] xin.text = "0" -> 0
                     [] xin.text = "1" -> 1 [] xin.text = "31" -> 31
        IN  /\ xout.st = "ok"
            /\ Len(GetItem(xout.p.attrs, a.key)) = 1
            /\ a.has_tag /\ a.type = "integer" =>
                  /\ Len(Stored) = 4
                  /\ Stored = <<tag>> \o From(EncodedValue, 1)
            /\ a.has_tag /\ a.type # "integer" => Stored = <<tag>> \o EncodedValue
            /\ ~a.has_tag => Stored = EncodedValue

\* C28 witness: Tunnel-Type:31 was set to a number with a high octet
C28_TaggedIntegerSet ==
    /\ xpc = "setitem"
    /\ xin.name = "Tunnel-Type" /\ xin.text = "31" /\ xin.value = Halves(50331653)
    /\ xout.st = "ok"
    /\ Stored = <<31, 0, 0, 5>>

\* Block i (from 1) of 16 octets of s
Block16(s, i) == Slice(s, 16 * (i - 1), 16 * i)

\* C29: salt_crypt(value) returns 2 salt octets with the top bit set and
\* then the encryption of length || value || zero padding to a multiple of
\* 16 octets, the first block XORed with MD5(secret || authenticator ||
\* salt), each later one with MD5(secret || previous ciphertext block); its
\* length is 2 + 16 * ceil((len(value) + 1) / 16).
C29_SaltCrypt ==
    xpc = "salt_crypt" =>
        LET out    == xout.val
            value  == xin.value
            nblk   == (Len(value) + 1 + 15) \div 16
            plain  == <<Len(value)>> \o value \o Zeros(16 * nblk - Len(value) - 1)
            cipher == From(out, 2)
            auth   == xout.p.authenticator
        IN  /\ Len(out) = 2 + 16 * nblk
            /\ out[1] >= 128
            /\ Len(auth) = 16
            /\ xin.p.authenticator # None => auth = xin.p.authenticator
            /\ \A i \in 1..nblk :
                  LET last == IF i = 1 THEN auth \o Slice(out, 0, 2) ELSE Block16(cipher, i - 1)
                  IN  XorZip(Block16(cipher, i), MD5(xin.p.secret \o last)) = Block16(plain, i)

\* C29 witness: a value of 31 octets was encrypted into two blocks with the
\* largest salt
C29_TwoBlocks ==
    /\ xpc = "salt_crypt"
    /\ Len(xin.value) = 31
    /\ Len(xout.val) = 34
    /\ Slice(xout.val, 0, 2) = <<255, 254>>

\* C30: create_reply gives the response kind of the request: Access-Accept
\* for Access-Request, Accounting-Response for Accounting-Request, CoA-ACK
\* for CoA-Request, Disconnect-ACK for Disconnect-Request.
C30_MatchingResponse ==
    xpc = "create_reply" =>
        xout.code = CASE xin.p.code = ACCESS_REQUEST     -> ACCESS_ACCEPT
                      [] xin.p.code = ACCOUNTING_REQUEST -> ACCOUNTING_RESPONSE
                      [] xin.p.code = COA_REQUEST        -> COA_ACK
                      [] xin.p.code = DISCONNECT_REQUEST -> DISCONNECT_ACK

\* C31: an eap-md5 exchange has at most two flights; a first verified reply
\* that is not an Access-Challenge is returned without a second flight;
\* after a verified Access-Challenge exactly one further request is sent,
\* and the reply send_packet returns after it is an Access-Accept or an
\* Access-Reject.
C31_TwoFlights ==
    /\ Len(eflights) <= 2
    /\ (epc = "done" /\ echallenge = NoChallenge /\ eoutcome = "reply")
          => /\ Len(eflights) = 1
             /\ ereturned # ACCESS_CHALLENGE
    /\ echallenge # NoChallenge => Len(eflights) = 2
    /\ (epc = "done" /\ Len(eflights) = 2 /\ eoutcome = "reply")
          => ereturned \in {ACCESS_ACCEPT, ACCESS_REJECT}

(***************************************************************************)
(* The proxy (src/pyrad/proxy.py): a Server with one more socket, on which *)
(* the replies of other servers arrive.  Proxy._process_input and          *)
(* Proxy._handle_proxy_packet are those of the source; the loop,           *)
(* _grab_packet and Server._process_input are the ones above.              *)
(***************************************************************************)

\* self._proxyfd
ProxyFd == "proxy0"

\* A datagram of the given code with Reply-Message "o"
ResponseDatagram(code) == PeerDatagram(code, 23, OneAttr)

\* The events poll() reports to a proxy: datagrams on the proxy socket from
\* known and unknown peers, with response codes and others, a cut one and
\* one the decoder does not return from; and datagrams on the sockets of
\* the server
ProxyEvents ==
    { [fd |-> ProxyFd, ev |-> "POLLIN", dg |-> FromPeer("nas1", ResponseDatagram(c))] :
          c \in {ACCESS_ACCEPT, ACCESS_REJECT, ACCOUNTING_RESPONSE, ACCESS_CHALLENGE,
                 ACCESS_REQUEST, COA_ACK} }
    \cup { [fd |-> ProxyFd, ev |-> "POLLIN", dg |-> FromPeer(ip, ResponseDatagram(ACCESS_ACCEPT))] :
              ip \in {"nas2", "stranger"} }
    \cup { [fd |-> ProxyFd, ev |-> "POLLIN", dg |-> FromPeer("stranger", ResponseDatagram(ACCESS_REQUEST))] }
    \cup { [fd |-> ProxyFd, ev |-> "POLLIN", dg |-> FromPeer("nas1", raw)] :
              raw \in { Slice(ResponseDatagram(ACCESS_ACCEPT), 0, 19),
                        PeerDatagram(ACCESS_ACCEPT, 20 + Len(HangingVsa), HangingVsa) } }
    \cup { [fd |-> "auth0", ev |-> "POLLIN", dg |-> FromPeer(ip, RequestDatagram(ACCESS_REQUEST))] :
              ip \in {"nas1", "stranger"} }
    \cup { [fd |-> "acct0", ev |-> "POLLIN", dg |-> FromPeer("nas2", RequestDatagram(c))] :
              c \in {ACCOUNTING_REQUEST, ACCESS_ACCEPT} }
    \cup { [fd |-> "auth0", ev |-> "POLLERR", dg |-> FromPeer("", << >>)] }

\* _handle_proxy_packet with no test of the code
HandleProxyPacket_AnyCode(rq) ==
    IF rq.source[1] \notin DOMAIN HostTable
    THEN [st |-> "ServerPacketError", msg |-> "unknown host", pkt |-> rq]
    ELSE [st |-> "ok", msg |-> "", pkt |-> [rq EXCEPT !.p.secret = HostTable[rq.source[1]]]]

\* Proxy._handle_proxy_packet(pkt): the source must be in self.hosts; then
\* pkt.secret = self.hosts[pkt.source[0]].secret; then the code must be
\* Access-Accept, Access-Reject or Accounting-Response
HandleProxyPacket(rq) ==
    IF rq.source[1] \notin DOMAIN HostTable
    THEN [st |-> "ServerPacketError", msg |-> "unknown host", pkt |-> rq]
    ELSE LET known == [rq EXCEPT !.p.secret = HostTable[rq.source[1]]]
         IN  IF known.p.code \notin {ACCESS_ACCEPT, ACCESS_REJECT, ACCOUNTING_RESPONSE}
             THEN [st |-> "ServerPacketError", msg |-> "non-response", pkt |-> known]
             ELSE [st |-> "ok", msg |-> "", pkt |-> known]

\* poll() of the proxy returns
ProxyPoll ==
    /\ spc = "poll"
    /\ \E k \in 1..MaxReady :
          /\ sevents + k <= MaxEvents
          /\ \E ready \in [1..k -> ProxyEvents] :
                spending' = [i \in 1..k |-> [n |-> sevents + i, fd |-> ready[i].fd,
                                             ev |-> ready[i].ev, dg |-> ready[i].dg]]
          /\ sevents' = sevents + k
    /\ spc' = "for"
    /\ UNCHANGED <<slog, shandled, ssent>>
    /\ UNCHANGED nonServer

\* Proxy._process_input(fd): on the proxy socket _grab_packet with
\* create_packet as the generator and then _handle_proxy_packet, whose call
\* is recorded with the packet as it left it; on every other socket
\* Server._process_input: _grab_packet, the role routine, the handler of
\* the application and what it sends
ProxyProcessInput ==
    /\ spc = "for"
    /\ Head(spending).ev = "POLLIN"
    /\ \E e \in {Head(spending)} :
       \E role \in {IF e.fd = ProxyFd THEN "packet" ELSE FdRole(e.fd)} :
       \E g \in {GrabPacket(role, e.fd, e.dg)} :
       \E h \in {IF e.fd = ProxyFd THEN HandleProxyPacket(g.pkt) ELSE HandlePacket(role, g.pkt)} :
       \E entry \in {[n |-> e.n, fd |-> e.fd, ev |-> "POLLIN", dg |-> e.dg, st |-> "ok", msg |-> ""]} :
          IF g.st = "hang"
          THEN /\ spc' = "hung"
               /\ UNCHANGED <<spending, slog, shandled, ssent>>
          ELSE /\ spending' = Tail(spending)
               /\ spc' = AfterEvent
               /\ IF g.st # "ok"
                  THEN /\ slog' = Append(slog, [entry EXCEPT !.st = g.st])
                       /\ UNCHANGED <<shandled, ssent>>
                  ELSE IF e.fd = ProxyFd
                  THEN /\ slog' = Append(slog, [entry EXCEPT !.st = h.st, !.msg = h.msg])
                       /\ shandled' = Append(shandled,
                             [n |-> e.n, handler |-> "_handle_proxy_packet", pkt |-> h.pkt])
                       /\ UNCHANGED ssent
                  ELSE IF h.st # "ok"
                  THEN /\ slog' = Append(slog, [entry EXCEPT !.st = h.st, !.msg = h.msg])
                       /\ UNCHANGED <<shandled, ssent>>
                  ELSE \E b \in HandlerBehaviours :
                       \E answer \in {CreateReplyPacket(h.pkt, HandlerReplyAttrs)} :
                       \E out \in {SendReplyPacket(h.pkt.fd, answer)} :
                          /\ shandled' = Append(shandled,
                                [n |-> e.n, handler |-> HandlerOf(h.pkt.p.code), pkt |-> h.pkt])
                          /\ IF b = "reply"
                             THEN /\ out.st = "ok"
                                  /\ ssent' = Append(ssent,
                                        [n |-> e.n, reply |-> answer, fd |-> out.fd,
                                         to |-> out.to, raw |-> out.raw])
                                  /\ slog' = Append(slog, entry)
                             ELSE /\ UNCHANGED ssent
                                  /\ slog' = Append(slog,
                                        [entry EXCEPT !.st = IF b = "quiet" THEN "ok" ELSE b])
    /\ UNCHANGED sevents
    /\ UNCHANGED nonServer

NextProxy ==
    \/ ProxyPoll
    \/ ServerPollError
    \/ ProxyProcessInput

SpecProxy == InitServer /\ [][NextProxy]_vars

\* What Server._process_input does with a decoded datagram on a socket of
\* the server: the entry it logs and the handler it calls
ServerPathOf(l) ==
    LET h == HandlePacket(FdRole(l.fd), GrabPacket(FdRole(l.fd), l.fd, l.dg).pkt)
    IN  IF h.st = "ok"
        THEN /\ l.msg = ""
             /\ \E i \in HandledIn(l.n) : shandled[i].handler = HandlerOf(l.dg.raw[1])
        ELSE /\ l.st = h.st /\ l.msg = h.msg
             /\ HandledIn(l.n) = {}

\* C32: a decoded packet on the proxy socket is accepted exactly when its
\* source IP is in the host table and its code is Access-Accept,
\* Access-Reject or Accounting-Response, and otherwise ends with
\* ServerPacketError and is dropped from the loop's list; the packet has the
\* host's secret when the source is known and none when it is not; nothing
\* is sent; and a packet on any other socket takes the path of the server.
C32_ProxyAdmission ==
    /\ Len(slog) + Len(spending) = sevents
    /\ \A i \in 1..Len(slog) :
          LET l == slog[i]
          IN  (l.ev = "POLLIN" /\ DecodePacket(l.dg.raw).st = "ok") =>
                 IF l.fd = ProxyFd
                 THEN /\ l.st \in {"ok", "ServerPacketError"}
                      /\ l.st = "ok" <=>
                            /\ l.dg.source[1] \in DOMAIN HostTable
                            /\ l.dg.raw[1] \in {ACCESS_ACCEPT, ACCESS_REJECT, ACCOUNTING_RESPONSE}
                      /\ SentIn(l.n) = {}
                      /\ Cardinality(HandledIn(l.n)) = 1
                      /\ \A j \in HandledIn(l.n) :
                            /\ shandled[j].handler = "_handle_proxy_packet"
                            /\ shandled[j].pkt.p.secret =
                                  IF l.dg.source[1] \in DOMAIN HostTable
                                  THEN HostTable[l.dg.source[1]] ELSE << >>
                 ELSE ServerPathOf(l)

\* C32 witness: a reply of a known server was accepted on the proxy socket
\* and then a request of a known peer was refused on it
C32_AcceptedThenRefused ==
    /\ Len(slog) = 2
    /\ slog[1].fd = ProxyFd /\ slog[1].st = "ok"
    /\ slog[1].dg.raw[1] = ACCOUNTING_RESPONSE
    /\ slog[2].fd = ProxyFd /\ slog[2].st = "ServerPacketError"
    /\ slog[2].msg = "non-response"
    /\ slog[2].dg.source[1] = "nas1"

(***************************************************************************)
(* Properties of the packet as a map of names (checked under SpecMap)      *)
(***************************************************************************)

\* The ordered multimap the calls describe: what is under the name after
\* the first k calls.  A set puts its values there, an add appends its
\* values (to nothing when the name is absent), a delete removes the name;
\* a call with a name the dictionary does not have, and a delete of an
\* absent name, change nothing.
RECURSIVE Multimap(_, _, _)
Multimap(ops, k, name) ==
    IF k = 0 THEN [found |-> FALSE, vals |-> << >>]
    ELSE LET before == Multimap(ops, k - 1, name)
             o      == ops[k]
         IN  IF o.name # name \/ ~InDictionary(name) THEN before
             ELSE CASE o.op = "set" -> [found |-> TRUE, vals |-> o.values]
                    [] o.op = "add" -> [found |-> TRUE, vals |-> before.vals \o o.values]
                    [] o.op = "del" -> [found |-> FALSE, vals |-> << >>]

\* C33: after any sequence of pkt[name] = v, add_attribute and del, get(name)
\* returns the values of the last set and of the adds since, in the order
\* given, and nothing after a delete; add_attribute appends and never
\* replaces; name in pkt is True exactly when the name was set or added and
\* not deleted since, and False for a name the dictionary does not have.
C33_OrderedMultimap ==
    xpc = "map" =>
        \A name \in MapNames :
            LET m == Multimap(xin.ops, Len(xin.ops), name)
            IN  /\ ContainsName(xout.p, name) = m.found
                /\ GetName(xout.p, name) = m

(***************************************************************************)
(* Client._send_packet with packets that carry a Message-Authenticator     *)
(* (message_authenticator=True): the same loop, other packets              *)
(***************************************************************************)

\* The packets send_packet is called with: an Access-Request, an
\* Accounting-Request that has an Acct-Delay-Time and a CoA-Request, each
\* made with message_authenticator=True
RetryPackets ==
    { WithAttrs(NewPacket("auth", ACCESS_REQUEST, 7, Secret, None, TRUE, "pap"),
                << [key |-> Key(1), vals |-> << <<97>> >>] >>),
      WithAttrs(NewPacket("acct", ACCOUNTING_REQUEST, 7, Secret, None, TRUE, "pap"),
                << [key |-> Key(41), vals |-> << PackL(3) >>],
                   [key |-> Key(1), vals |-> << <<97>> >>] >>),
      WithAttrs(NewPacket("coa", COA_REQUEST, 7, Secret, None, TRUE, "pap"),
                << [key |-> Key(1), vals |-> << <<97>> >>] >>) }

InitRetry ==
    /\ pkt \in RetryPackets
    /\ pkt0 = pkt
    /\ retries \in 0..MaxRetries
    /\ timeout \in 1..MaxTimeout
    /\ attempt = 0
    /\ pc = "for"
    /\ now = 0
    /\ waitto = 0
    /\ outcome = "none"
    /\ reply = NoPacket
    /\ clock = 0
    /\ sockbuf = << >>
    /\ sent = << >>
    /\ delivered = 0
    /\ lastRx = NoRx
    /\ dropped = 0
    /\ host \in Hosts
    /\ port = SendPacketPort(pkt, host)
    /\ sentto = << >>
    /\ CodecIdle
    /\ AuthIdle
    /\ MaIdle
    /\ ConstructIdle
    /\ RestIdle

SpecRetry == InitRetry /\ [][Next]_vars

\* The attributes but those under the given codes
Without(attrs, codes) == SelectSeq(attrs, LAMBDA en : en.key \notin { Key(c) : c \in codes })

\* The packet is as it was but for the attributes under the given codes
\* and, for an AcctPacket or CoAPacket, the authenticator
SameBut(a, b, codes) ==
    /\ a.kind = b.kind /\ a.code = b.code /\ a.id = b.id /\ a.secret = b.secret
    /\ a.message_authenticator = b.message_authenticator
    /\ a.auth_type = b.auth_type
    /\ a.kind = "auth" => a.authenticator = b.authenticator
    /\ Without(a.attrs, codes) = Without(b.attrs, codes)

\* Every transmission carries the same id, and those of an Access-Request
\* the same Request Authenticator
SameIdAndAuthenticator ==
    \A i, j \in 1..Len(sent) :
        /\ sent[i][2] = sent[j][2]
        /\ pkt0.code = ACCESS_REQUEST => Slice(sent[i], 4, 20) = Slice(sent[j], 4, 20)

\* A step that is a retry: a transmission after the first
IsRetry == pc = "for" /\ pc' = "wait" /\ attempt > 0

\* C34 (as stated): every transmission carries the same id, an
\* Access-Request the same Request Authenticator, and a retry changes
\* nothing of the packet but Acct-Delay-Time and, for Accounting and CoA
\* packets, the authenticator.
C34_RetryFrameAsStated ==
    /\ [] SameIdAndAuthenticator
    /\ [][IsRetry => SameBut(pkt, pkt', {41})]_vars

\* C34 (amended): every transmission carries the same id, an Access-Request
\* the same Request Authenticator, and a retry changes nothing of the
\* packet but Acct-Delay-Time, the Message-Authenticator of a packet made
\* with message_authenticator=True and, for Accounting and CoA packets, the
\* authenticator.
C34_RetryFrame ==
    /\ [] SameIdAndAuthenticator
    /\ [][IsRetry => SameBut(pkt, pkt', IF pkt.message_authenticator THEN {41, 80} ELSE {41})]_vars

\* C34 witness: an Accounting-Request made with message_authenticator=True
\* was transmitted twice, with another Message-Authenticator the second
\* time
C34_Retransmitted ==
    /\ Len(sent) = 2
    /\ pkt0.message_authenticator
    /\ pkt0.code = ACCOUNTING_REQUEST
    /\ GetItem(DecodePacket(sent[1]).attrs, Key(80)) # GetItem(DecodePacket(sent[2]).attrs, Key(80))

\* C35: a correctly authenticated reply of the server to a transmission of
\* the request, read in the wait window of that attempt or of a later one
\* of the same call, is accepted and returned, for an Access-Request and
\* for an Accounting-Request alike.
C35_LateReplyAccepted ==
    lastRx # NoRx =>
        \A k \in 1..(lastRx.attempt + 1) :
            lastRx.raw = Arrival(sent[k], pkt.kind, "good") => lastRx.res = "return"

\* C36: every datagram create_raw_request or create_raw_reply returns has a
\* Length field (octets 2 and 3) equal to its number of octets, for packets
\* constructed with message_authenticator=True and packets
\* add_message_authenticator was called on alike.
C36_LengthField ==
    \A i \in 1..Len(mraw) : UnpackH(Slice(mraw[i], 2, 4)) = Len(mraw[i])

(***************************************************************************)
(* decode_packet on datagrams as a peer may send them (SpecDecode)         *)
(***************************************************************************)

\* The longest attribute body
MaxBody == 4

\* The octets the bodies are made of: sub-attribute types 1, 2, 3 and 7 (7
\* of vendor 9 is tlv-typed), which are also the length octets 0..3 and 7
SubOctets == {0, 1, 2, 3, 7}

Bodies == UNION { [1..n -> SubOctets] : n \in 0..MaxBody }

\* A datagram whose Length field is right, with the attribute octets given
WithAttributes(a) == PeerDatagram(ACCESS_ACCEPT, 20 + Len(a), a)

\* One attribute of the tlv type 241, one of type 26 of vendor 9, one of
\* type 1 whose length octet is n, each filling the datagram; the same
\* after a well-formed attribute; datagrams cut short
DecodeDatagrams ==
    { WithAttributes(<<241, 2 + Len(b)>> \o b) : b \in Bodies }
    \cup { WithAttributes(<<26, 6 + Len(b), 0, 0, 0, 9>> \o b) : b \in Bodies }
    \cup UNION { { WithAttributes(<<t, n>> \o b) : n \in {0, 1, 2 + Len(b), 3 + Len(b), 255} } :
                    t \in {1, 26, 241},
                    b \in { << >>, <<1>>, <<1, 3, 97>>, <<0, 0, 0, 9, 1, 3, 97>>,
                            <<0, 0, 0, 9, 7, 5, 1, 3, 97>> } }
    \cup { WithAttributes(OneAttr \o a) :
               a \in { <<1>>, <<241, 3, 1>>, <<241, 9, 1, 3, 97>>, <<26, 9, 0, 0, 0, 9, 1, 3, 97>>,
                       <<26, 12, 0, 0, 0, 9, 1, 3, 97>> } }
    \cup { PeerDatagram(ACCESS_ACCEPT, 20 + n, OneAttr) : n \in {0, 3, 4} }
    \cup { Zeros(n) : n \in {0, 19} }

\* pkt.decode_packet(raw)
CallDecodePacket ==
    /\ xpc = "idle"
    /\ \E raw \in DecodeDatagrams :
          /\ xin' = [raw |-> raw]
          /\ xout' = DecodePacket(raw)
    /\ xpc' = "decode_packet"
    /\ UNCHANGED nonEncode

NextDecode == CallDecodePacket

SpecDecode == InitCalls /\ [][NextDecode]_vars

\* C37: decode_packet terminates on every datagram: the attribute loop, the
\* vendor sub-attribute loop and the TLV sub-attribute loop advance at every
\* iteration, also past a sub-attribute that declares length 0.
C37_DecodeTerminates ==
    xpc = "decode_packet" => xout.st # "hang"

\* C38: the only exception decode_packet raises is packet.PacketError: when
\* it ends without having decoded the datagram, it ends with PacketError,
\* also for a tlv-typed attribute whose value ends in a cut sub-attribute
\* header.
C38_OnlyPacketError ==
    (xpc = "decode_packet" /\ xout.st \notin {"ok", "hang"}) => xout.st = "PacketError"

\* The last attribute of the attribute octets declares more octets than are
\* left (the attributes before it being taken by their length octets)
RECURSIVE Overruns(_)
Overruns(packet) ==
    IF Len(packet) < 2 \/ packet[2] < 2 THEN FALSE
    ELSE IF packet[2] > Len(packet) THEN TRUE
    ELSE Overruns(From(packet, packet[2]))

\* C40: a datagram whose final attribute declares a length larger than the
\* number of octets left in the datagram is not decoded: decode_packet
\* never returns with a cut attribute value stored.
C40_OverrunRejected ==
    (xpc = "decode_packet" /\ Len(xin.raw) >= 20 /\ Overruns(From(xin.raw, 20)))
        => xout.st # "ok"

(***************************************************************************)
(* _refresh_message_authenticator over the values the HMAC may take        *)
(* (SpecDigest)                                                            *)
(***************************************************************************)

\* Packet._refresh_message_authenticator, digest being what
\* hmac_constructor.digest() returns: attribute 80 zeroed, then
\* self['Message-Authenticator'] = digest, which goes through encode_octets
RefreshMessageAuthenticatorWith(p, digest) ==
    LET zeroed == [p EXCEPT !.attrs = SetItem(p.attrs, Key(80), << Zeros(16) >>)]
        zeroIn == p.code \in {ACCOUNTING_REQUEST, DISCONNECT_REQUEST, COA_REQUEST, ACCOUNTING_RESPONSE}
        enc    == encode_octets(digest)
    IN  IF ~zeroIn /\ p.authenticator = None THEN [st |-> "Exception", p |-> zeroed]
        ELSE IF enc.st # "ok" THEN [st |-> enc.st, p |-> zeroed]
        ELSE [st |-> "ok", p |-> [p EXCEPT !.attrs = SetItem(zeroed.attrs, Key(80), << enc.val >>)]]

\* The octets the first four octets of a digest are drawn from ('0' is 48,
\* '1' is 49, 'x' is 120), and the twelve octets that follow
DigestOctets == {0, 48, 49, 120, 255}
DigestTails == { Zeros(12), [i \in 1..12 |-> 49] }

Digests ==
    { <<a, b, c, e>> \o t : a \in DigestOctets, b \in DigestOctets, c \in DigestOctets,
                            e \in DigestOctets, t \in DigestTails }

\* The packets refreshed: an Access-Request and an Accounting-Request with
\* a User-Name
DigestPackets ==
    { [q EXCEPT !.attrs = << [key |-> Key(1), vals |-> << <<97>> >>] >>] :
          q \in { NewPacket("auth", ACCESS_REQUEST, 7, Secret, SuppliedAuthenticator, TRUE, "pap"),
                  NewPacket("acct", ACCOUNTING_REQUEST, 7, Secret, None, TRUE, "pap") } }

\* pkt._refresh_message_authenticator() with the HMAC coming out as digest
CallRefresh ==
    /\ xpc = "idle"
    /\ \E p \in DigestPackets, digest \in Digests :
          /\ xin' = [p |-> p, digest |-> digest]
          /\ xout' = RefreshMessageAuthenticatorWith(p, digest)
    /\ xpc' = "refresh"
    /\ UNCHANGED nonEncode

NextDigest == CallRefresh

SpecDigest == InitCalls /\ [][NextDigest]_vars

\* C39: whatever 16 octets the HMAC comes out as, the refresh stores them
\* unchanged as the single value of attribute 80, and the serialized
\* attribute 80 is 80, 18 and those octets, also when they begin with "0x".
C39_DigestStored ==
    xpc = "refresh" =>
        /\ xout.st = "ok"
        /\ GetItem(xout.p.attrs, Key(80)) = << xin.digest >>
        /\ PktEncodeAttributes(xout.p.attrs) = <<1, 3, 97, 80, 18>> \o xin.digest

=============================================================================
